---- MODULE Spec2Model ----
(***************************************************************************)
(* Model of the MCP gateway of mcp_superiorapis_remote: the Catalog        *)
(* Fetcher (fetch_superior_apis_tools / fetch_superior_tools), the Tool    *)
(* Cache (tools_cache), the Tool Invoker (call_superior_api_tool /         *)
(* call_superior_tool) and the JSON-RPC handlers in front of them, for the *)
(* three server modules: mcp_server_http.py ("http"), mcp_server_sse.py    *)
(* ("sse") and dify_mcp_standalone.py ("dify").                            *)
(*                                                                         *)
(* Each behaviour is one run of one server process.  The server is an      *)
(* asyncio program: a task runs uninterrupted from one await to the next,  *)
(* so every action below is the code of one task between two awaits.      *)
(***************************************************************************)
EXTENDS Integers, Sequences, FiniteSets, TLC

VARIABLES
    server,       \* which server module this process runs
    now,          \* time.time() of the process, in seconds
    tools_cache,  \* the module-level dict tools_cache: token -> entry
    pc,           \* per task: "idle", "await_catalog", "await_invoke", "done"
    req,          \* per task: the operation it runs and its inputs
    loc,          \* per task: local variables of the running coroutine
    sent,         \* per task: upstream HTTP requests issued by the operation
    result,       \* per task: what the operation returned
    session_store,       \* the module-level dict session_store: session id -> entry
    active_connections,  \* the module-level dict active_connections (sse)
    stream,       \* per streaming connection: the state of its event generator
    session,      \* per task: the session id received, used and sent back
    uuids         \* number of uuid4 values generate_session_id has returned

\* What the operations on tools leave alone.
aux == <<session_store, active_connections, stream, session, uuids>>

vars == <<server, now, tools_cache, pc, req, loc, sent, result,
          session_store, active_connections, stream, session, uuids>>

-----------------------------------------------------------------------------
(* Bounds of the model *)

\* Number of ticks the clock may advance.
MaxTicks == 2
\* The clock advances in steps of TTL / TicksPerTTL seconds.
TicksPerTTL == 2
\* Number of concurrently scheduled request tasks.
NumTasks == 2

\* Number of streaming connections a behaviour opens.
NumConns == 2
\* Number of heartbeats a streaming connection may emit.
MaxHeartbeats == 2
\* Number of session ids generate_session_id may hand out.
MaxUuids == 2
\* Largest number of items of a batch request.
MaxBatch == 2

Tasks == 1..NumTasks
Conns == 1..NumConns

-----------------------------------------------------------------------------
(* Program constants *)

FrontEnds == {"http", "sse", "dify"}

\* dify_mcp_standalone.py: CACHE_TTL = 5 * 60
CACHE_TTL == 300
\* config.py: Config.cache_expiry, default of CACHE_EXPIRY
cache_expiry == 3600
\* fetch_superior_apis_tools: len(token) < 10
MinTokenLen == 10

SUPERIOR_API_BASE == "https://superiorapis-creator.cteam.com.tw"

\* The cache lifetime each server module is configured with.
TTL(fe) == IF fe = "dify" THEN CACHE_TTL ELSE cache_expiry

TickSeconds(fe) == TTL(fe) \div TicksPerTTL

-----------------------------------------------------------------------------
(* Credentials *)

\* Python None, as a marker that is no header value.
None == "<None>"

\* The credentials requests are made with: missing, empty, too short, and two
\* credentials the upstream has issued.
Tokens == {None, "", "short", "tok_valid_A", "tok_valid_B"}

\* The upstream answers 200 only to credentials it has issued.
IssuedTokens == {"tok_valid_A", "tok_valid_B"}

\* Python truthiness of a token: `if not token`
Falsy(tok) == tok = None \/ tok = ""

\* The credential rule of the data model: present and at least 10 characters.
ValidCredential(tok) == ~Falsy(tok) /\ Len(tok) >= MinTokenLen

\* The places of a request a credential is read from.  A header or query
\* parameter that is not sent is None; request.headers.get("Authorization", "")
\* makes an Authorization header that is not sent the empty string.
HeaderTokens == {None, "", "tok_header_01"}
QueryTokens == {None, "", "tok_query_001"}
ApiKeys == {None, "tok_apikey_01"}
Authorizations ==
    {"", "Bearer tok_bearer_01", "bearer tok_bearer_01", "Bearer ", "Basic dXNlcjpwdw=="}

CredentialPlaces ==
    [header_token : HeaderTokens, authorization : Authorizations,
     query_token : QueryTokens, x_api_key : ApiKeys, api_key : {None}]

\* Python `a or b`
Or(a, b) == IF Falsy(a) THEN b ELSE a

\* auth.replace("Bearer ", "").replace("bearer ", "") on the Authorization
\* values above
StripBearer(auth) ==
    CASE auth \in {"Bearer tok_bearer_01", "bearer tok_bearer_01"} -> "tok_bearer_01"
      [] auth = "Bearer " -> ""
      [] OTHER -> auth

\* auth_header.startswith("Bearer ") and auth_header[7:]
StartsWithBearer(auth) == auth \in {"Bearer tok_bearer_01", "Bearer "}
AfterBearer(auth) == IF auth = "Bearer tok_bearer_01" THEN "tok_bearer_01" ELSE ""

\* extract_token.  http, sse: an `or` chain over the query parameter, the token
\* header (header names are case-insensitive, so "token" and "TOKEN" are one
\* header), the stripped Authorization header, X-API-Key and api-key; the
\* value is None or "" when nothing is found.  dify: token header, then
\* Authorization: Bearer, then the query parameter, and HTTPException(401),
\* here None, when nothing is found.
extract_token(fe, r) ==
    IF fe # "dify"
    THEN Or(r.query_token,
            Or(r.header_token,
               Or(r.header_token,
                  Or(StripBearer(r.authorization), Or(r.x_api_key, r.api_key)))))
    ELSE IF ~Falsy(r.header_token) THEN r.header_token
    ELSE IF StartsWithBearer(r.authorization) THEN AfterBearer(r.authorization)
    ELSE IF ~Falsy(r.query_token) THEN r.query_token
    ELSE None

-----------------------------------------------------------------------------
(* The upstream catalog: plugins -> paths -> methods -> operation specs.   *)
(* Python dicts keep insertion order, so paths and methods are sequences.  *)

Lit(s) == [ph |-> FALSE, text |-> s]
Ph(n) == [ph |-> TRUE, text |-> n]

SpecGetForecast ==
    [operationId |-> "get_forecast", summary |-> "Forecast for a city",
     parameters |-> <<[name |-> "city", in |-> "query", required |-> TRUE,
                       schema |-> [type |-> "string"]]>>]

SpecGetStation ==
    [operationId |-> "get_station", summary |-> "Read a station",
     parameters |-> <<[name |-> "id", in |-> "path", required |-> TRUE],
                      [name |-> "X-Trace", in |-> "header"]>>]

\* An operation whose operationId is that of another operation.
SpecPutStation == [operationId |-> "get_station", summary |-> "Replace a station"]

SpecDeleteStation ==
    [operationId |-> "delete_station",
     parameters |-> <<[name |-> "id", in |-> "path", required |-> TRUE],
                      [name |-> "reason"],
                      [name |-> "X-Trace", in |-> "header"],
                      [name |-> "token", in |-> "header"]>>]

SpecCreateAlert ==
    [summary |-> "Create an alert",
     requestBody |-> [content |-> [json |-> [schema |->
        [properties |-> [city |-> [type |-> "string"],
                         level |-> [type |-> "string", enum |-> <<"low", "high">>],
                         area |-> [type |-> "object",
                                   properties |->
                                     [unit |-> [type |-> "string",
                                                enum |-> <<"km", "mi">>]]]],
         required |-> <<"city">>]]]]]

SpecHeadAlert == [operationId |-> "head_alert"]

\* An operation with a parameter that has no name.
SpecNoParamName ==
    [operationId |-> "broken_op", parameters |-> <<[in |-> "query"]>>]

PluginWeather ==
    [plugin |-> [name_for_model |-> "weather", description_for_model |-> "Weather data",
      interface |-> [paths |-> <<
        [path |-> <<Lit("/forecast")>>,
         methods |-> <<[method |-> "get", spec |-> SpecGetForecast]>>],
        [path |-> <<Lit("/stations/"), Ph("id")>>,
         methods |-> <<[method |-> "get", spec |-> SpecGetStation],
                       [method |-> "DELETE", spec |-> SpecDeleteStation]>>],
        [path |-> <<Lit("/v2/stations/"), Ph("id")>>,
         methods |-> <<[method |-> "put", spec |-> SpecPutStation]>>] >>]]]

PluginAlerts ==
    [plugin |-> [name_for_model |-> "alerts", description_for_model |-> "Alerting",
      interface |-> [paths |-> <<
        [path |-> <<Lit("/alerts")>>,
         methods |-> <<[method |-> "post", spec |-> SpecCreateAlert],
                       [method |-> "head", spec |-> SpecHeadAlert]>>] >>]]]

PluginBroken ==
    [plugin |-> [name_for_model |-> "broken", description_for_model |-> "Broken",
      interface |-> [paths |-> <<
        [path |-> <<Lit("/broken")>>,
         methods |-> <<[method |-> "get", spec |-> SpecNoParamName]>>] >>]]]

\* JSON null
JNull == [isNull |-> TRUE]
IsNull(v) == "isNull" \in DOMAIN v

\* A plugin item whose "plugin" value is null.
PluginNull == [plugin |-> JNull]

BodyV1 == [plugins |-> <<PluginWeather>>]
BodyV2 == [plugins |-> <<PluginWeather, PluginBroken, PluginAlerts>>]
BodyV3 == [plugins |-> <<PluginNull, PluginWeather>>]
BodyNoPlugins == [message |-> "no plugins"]

\* The JSON bodies the upstream catalog endpoint may answer with.
CatalogBodies == {BodyV1, BodyV2, BodyV3, BodyNoPlugins}


-----------------------------------------------------------------------------
(* Catalog parsing: the loops of fetch_superior_apis_tools (http, sse) and *)
(* fetch_superior_tools (dify) over plugins, paths and methods.            *)

\* dict.get(key, default)
Get(d, k, default) == IF k \in DOMAIN d THEN d[k] ELSE default

\* d[k] = v, d.pop(k, None) and {}
Put(d, k, v) == [x \in (DOMAIN d) \cup {k} |-> IF x = k THEN v ELSE d[x]]
Del(d, k) == [x \in (DOMAIN d) \ {k} |-> d[x]]
EmptyDict == <<>>

\* str.lower() and str.upper() on the verbs that occur in catalogs
Lower(m) ==
    CASE m \in {"get", "GET"} -> "get"
      [] m \in {"post", "POST"} -> "post"
      [] m \in {"put", "PUT"} -> "put"
      [] m \in {"delete", "DELETE"} -> "delete"
      [] m \in {"head", "HEAD"} -> "head"
      [] m \in {"patch", "PATCH"} -> "patch"

Upper(m) ==
    CASE Lower(m) = "get" -> "GET"
      [] Lower(m) = "post" -> "POST"
      [] Lower(m) = "put" -> "PUT"
      [] Lower(m) = "delete" -> "DELETE"
      [] Lower(m) = "head" -> "HEAD"
      [] Lower(m) = "patch" -> "PATCH"

\* plugin_name.replace('-', '_') on the plugin names that occur in catalogs
ReplaceDash(n) == IF n = "weather-pro" THEN "weather_pro" ELSE n

\* Fault: the verb filter lets every verb through.
SurfacedEveryVerb(method) == TRUE

\* method.lower() in ['get', 'post', 'put', 'delete']
Surfaced(method) == Lower(method) \in {"get", "post", "put", "delete"}

\* tool_name = spec.get('operationId', <fallback>)
ToolName(fe, method, plugin_name, spec) ==
    IF "operationId" \in DOMAIN spec THEN spec.operationId
    ELSE IF fe = "dify" THEN method \o "_" \o plugin_name
    ELSE Lower(method) \o "_" \o ReplaceDash(plugin_name)

\* Whether building the descriptor of one operation raises.  http and sse read
\* param['name'] of every declared parameter (KeyError when it is missing);
\* dify copies the parameters list without reading it.
SynthRaises(fe, spec) ==
    /\ fe # "dify"
    /\ "parameters" \in DOMAIN spec
    /\ \E i \in DOMAIN spec.parameters : "name" \notin DOMAIN spec.parameters[i]

\* ', '.join(str(e) for e in enum_val)
RECURSIVE JoinComma(_)
JoinComma(values) ==
    IF values = <<>> THEN ""
    ELSE IF Len(values) = 1 THEN values[1]
    ELSE values[1] \o ", " \o JoinComma(Tail(values))

\* The text put between a description and the joined values of a list enum:
\* http writes the label in Chinese (U+9078 U+9805), sse writes "Enum".
EnumLabel(fe) == IF fe = "http" THEN " | <U+9078><U+9805>: " ELSE " | Enum: "

\* A fault: the enum values are added to the description and the enum stays.
FlattenPropKeepingEnum(fe, prop) ==
    IF "enum" \notin DOMAIN prop THEN prop
    ELSE Put(prop, "description",
             Get(prop, "description", "") \o EnumLabel(fe) \o JoinComma(prop.enum))

\* flatten_enum on one scalar property: the enum values move into the
\* description and the enum key is removed.
FlattenProp(fe, prop) ==
    IF "enum" \notin DOMAIN prop THEN prop
    ELSE [k \in (DOMAIN prop \ {"enum"}) \cup {"description"} |->
            IF k = "description"
            THEN Get(prop, "description", "") \o EnumLabel(fe) \o JoinComma(prop.enum)
            ELSE prop[k]]

\* isinstance(value, dict): a JSON value that is not an object is written as a
\* record with the one field `scalar`.
IsDict(value) == "scalar" \notin DOMAIN value

\* flatten_enum(schema), as a value.
\* sse: the enum of the schema itself is folded into its description, then
\* every property and `items` are flattened.
\* http: nothing is done for the schema itself.  A property of type object
\* is replaced by its flattened copy before its own enum is looked at, so
\* the copy keeps that enum; a property of type array takes the enum of its
\* `items` into its own description and flattens the items (an array
\* without `items` gets the default {}); every other enum of a property is
\* folded.
RECURSIVE flatten_enum(_, _)
flatten_enum(fe, schema) ==
    IF ~IsDict(schema) THEN schema
    ELSE IF fe = "http"
    THEN LET Array(prop) ==
                 LET items == Get(prop, "items", EmptyDict)
                     described ==
                         IF "enum" \in DOMAIN items
                         THEN Put(prop, "description",
                                  Get(prop, "description", "") \o EnumLabel(fe)
                                  \o JoinComma(items.enum))
                         ELSE prop
                 IN Put(described, "items", flatten_enum(fe, Del(items, "enum")))
             Prop(prop) ==
                 IF Get(prop, "type", None) = "object" THEN flatten_enum(fe, prop)
                 ELSE IF Get(prop, "type", None) = "array"
                      THEN FlattenProp(fe, Array(prop))
                      ELSE FlattenProp(fe, prop)
         IN IF "properties" \in DOMAIN schema
            THEN [schema EXCEPT !.properties = [n \in DOMAIN @ |-> Prop(@[n])]]
            ELSE schema
    ELSE LET Properties(s) ==
                 IF "properties" \in DOMAIN s
                 THEN [s EXCEPT !.properties =
                         [n \in DOMAIN @ |-> flatten_enum(fe, @[n])]]
                 ELSE s
             Items(s) ==
                 IF "items" \in DOMAIN s
                 THEN [s EXCEPT !.items = flatten_enum(fe, @)]
                 ELSE s
         IN Items(Properties(FlattenProp(fe, schema)))

\* The dict `schema` as its holder sees it once flatten_enum(schema) has
\* returned.  The copy flatten_enum works on is shallow: its `properties` is
\* the caller's dict, so the assignments to schema['properties'][name] land
\* in the caller's schema; `items` is assigned in the copy only, while the
\* items dict itself goes through the same call.
RECURSIVE AfterFlatten(_, _)
AfterFlatten(fe, schema) ==
    IF ~IsDict(schema) THEN schema
    ELSE IF fe = "http" THEN flatten_enum(fe, schema)
    ELSE LET Properties(s) ==
                 IF "properties" \in DOMAIN s
                 THEN [s EXCEPT !.properties =
                         [n \in DOMAIN @ |-> flatten_enum(fe, @[n])]]
                 ELSE s
             Items(s) ==
                 IF "items" \in DOMAIN s
                 THEN [s EXCEPT !.items = AfterFlatten(fe, @)]
                 ELSE s
         IN Items(Properties(schema))

\* A property dict of a body schema once flatten_enum(input_schema) has
\* returned: input_schema['properties'] is a new dict that holds the very
\* property dicts of the body schema.  http writes to the property dict
\* itself (for a property of type object after it has put the copy in its
\* place); sse copies the property and writes to what the copy shares.
PropAfter(fe, prop) ==
    IF fe = "http"
    THEN IF Get(prop, "type", None) = "object"
         THEN FlattenProp(fe, flatten_enum(fe, prop))
         ELSE flatten_enum(fe, [properties |-> [p |-> prop]]).properties.p
    ELSE AfterFlatten(fe, prop)

\* The schemas of spec['requestBody']['content'], one per content type that
\* has one.
BodySchemas(spec) ==
    IF "requestBody" \in DOMAIN spec /\ "content" \in DOMAIN spec.requestBody
    THEN {spec.requestBody.content[ct].schema :
            ct \in {c \in DOMAIN spec.requestBody.content :
                      "schema" \in DOMAIN spec.requestBody.content[c]}}
    ELSE {}

\* required_fields: the required lists of the body schemas, then the names of
\* the parameters declared required, in order.
RECURSIVE RequiredParams(_, _)
RequiredParams(params, i) ==
    IF i > Len(params) THEN <<>>
    ELSE (IF Get(params[i], "required", FALSE) THEN <<params[i].name>> ELSE <<>>)
         \o RequiredParams(params, i + 1)

RequiredFields(spec) ==
    LET bodies == {b \in BodySchemas(spec) : "required" \in DOMAIN b}
        params == Get(spec, "parameters", <<>>)
    IN (IF bodies = {} THEN <<>> ELSE (CHOOSE b \in bodies : TRUE).required)
       \o RequiredParams(params, 1)

\* input_schema of http and sse: the body schemas' properties, overwritten by
\* one {type, description} entry per declared parameter; "required" only
\* when some field is required; flatten_enum last.
InputSchema(fe, spec) ==
    LET bodies == {b \in BodySchemas(spec) : "properties" \in DOMAIN b}
        body_props == IF bodies = {} THEN <<>>
                      ELSE (CHOOSE b \in bodies : TRUE).properties
        params == Get(spec, "parameters", <<>>)
        param_names == {params[i].name : i \in DOMAIN params}
        Last(n) == CHOOSE i \in DOMAIN params :
                     /\ params[i].name = n
                     /\ \A j \in DOMAIN params : params[j].name = n => j <= i
        ParamProp(param) ==
            [type |-> Get(Get(param, "schema", [type |-> "string"]), "type", "string"),
             description |-> Get(param, "description", "")]
        properties == [n \in DOMAIN body_props \cup param_names |->
                         IF n \in param_names THEN ParamProp(params[Last(n)])
                         ELSE body_props[n]]
        WithRequired(required_fields) ==
            IF required_fields = <<>>
            THEN [type |-> "object", properties |-> properties]
            ELSE [type |-> "object", properties |-> properties,
                  required |-> required_fields]
    IN flatten_enum(fe, WithRequired(RequiredFields(spec)))

\* The `parameters` value of a dify descriptor: the summary with the
\* requestBody (post, put, patch) or the parameters list (get, delete).
DifyParameters(plugin_desc, method, spec) ==
    LET summary == Get(spec, "summary", plugin_desc)
    IN IF Lower(method) \in {"post", "put", "patch"}
       THEN IF "requestBody" \in DOMAIN spec
            THEN [summary |-> summary, requestBody |-> spec.requestBody]
            ELSE [summary |-> summary]
       ELSE [summary |-> summary, parameters |-> Get(spec, "parameters", <<>>)]

\* spec as it is once the descriptor is built: the property dicts of its
\* body schemas have been through flatten_enum, except those a declared
\* parameter of the same name replaced in input_schema before.  dify has no
\* flatten_enum.
SpecAfterSynthesis(fe, spec) ==
    LET params == Get(spec, "parameters", <<>>)
        param_names == {params[i].name : i \in DOMAIN params}
    IN IF fe # "dify" /\ BodySchemas(spec) # {}
       THEN [spec EXCEPT !.requestBody.content =
               [ct \in DOMAIN @ |->
                  IF "schema" \in DOMAIN @[ct] /\ "properties" \in DOMAIN @[ct].schema
                  THEN [@[ct] EXCEPT !.schema.properties =
                          [n \in DOMAIN @ |->
                             IF n \in param_names THEN @[n]
                             ELSE PropAfter(fe, @[n])]]
                  ELSE @[ct]]]
       ELSE spec

\* The descriptor of one operation: name, description, the input schema
\* (inputSchema in http and sse, parameters in dify) and the call metadata
\* (_meta in http and sse, _api_info in dify).
SynthTool(fe, plugin, path, method, spec) ==
    LET plugin_name == Get(plugin, "name_for_model", "unknown")
        plugin_description == Get(plugin, "description_for_model", "")
        call == [base_url |-> SUPERIOR_API_BASE,
                 path |-> path,
                 method |-> Upper(method),
                 plugin_name |-> plugin_name,
                 original_spec |-> SpecAfterSynthesis(fe, spec)]
        public == [name |-> ToolName(fe, method, plugin_name, spec),
                   description |-> Get(spec, "summary", plugin_description)]
    IN IF fe = "dify"
       THEN public @@ call
            @@ [parameters |-> DifyParameters(plugin_description, method, spec)]
       ELSE public @@ call @@ [inputSchema |-> InputSchema(fe, spec)]

\* for method, spec in methods.items(): ... tools.append(tool)
RECURSIVE ParseMethods(_, _, _, _, _, _)
ParseMethods(fe, plugin, path, methods, i, acc) ==
    IF i > Len(methods) THEN [exc |-> FALSE, tools |-> acc]
    ELSE LET m == methods[i] IN
         IF Surfaced(m.method) /\ SynthRaises(fe, m.spec)
         THEN [exc |-> TRUE, tools |-> acc]
         ELSE ParseMethods(fe, plugin, path, methods, i + 1,
                IF Surfaced(m.method)
                THEN Append(acc, SynthTool(fe, plugin, path, m.method, m.spec))
                ELSE acc)

\* for path, methods in paths.items(): ...
RECURSIVE ParsePaths(_, _, _, _, _)
ParsePaths(fe, plugin, paths, i, acc) ==
    IF i > Len(paths) THEN [exc |-> FALSE, tools |-> acc]
    ELSE LET Continue(r) ==
                 IF r.exc THEN r ELSE ParsePaths(fe, plugin, paths, i + 1, r.tools)
         IN Continue(ParseMethods(fe, plugin, paths[i].path, paths[i].methods, 1, acc))

\* The body of the loop over data['plugins'] for one plugin item.  `bound`
\* says whether plugin_name is assigned once the body has run or raised.
ParsePlugin(fe, plugin_item, acc) ==
    LET Paths(plugin) == Get(Get(plugin, "interface", <<>>), "paths", <<>>)
        Bound(r) == [exc |-> r.exc, tools |-> r.tools, bound |-> TRUE]
        Body(plugin) ==
            IF IsNull(plugin)
            THEN [exc |-> TRUE, tools |-> acc, bound |-> FALSE]  \* None.get: AttributeError
            ELSE Bound(ParsePaths(fe, plugin, Paths(plugin), 1, acc))
    IN Body(Get(plugin_item, "plugin", <<>>))

\* http, sse: the loop has no try of its own; an exception leaves the function's
\* try block.
RECURSIVE ParsePluginsUnguarded(_, _, _, _)
ParsePluginsUnguarded(fe, plugins, i, acc) ==
    IF i > Len(plugins) THEN [exc |-> FALSE, tools |-> acc]
    ELSE LET Continue(r) ==
                 IF r.exc THEN [exc |-> TRUE, tools |-> r.tools]
                 ELSE ParsePluginsUnguarded(fe, plugins, i + 1, r.tools)
         IN Continue(ParsePlugin(fe, plugins[i], acc))

\* dify: try/except around each plugin; the handler logs plugin_name and
\* continues.  plugin_name is a local of the function: when no iteration has
\* assigned it yet, the handler itself raises (UnboundLocalError).
RECURSIVE ParsePluginsGuarded(_, _, _, _, _)
ParsePluginsGuarded(fe, plugins, i, acc, name_bound) ==
    IF i > Len(plugins) THEN [exc |-> FALSE, tools |-> acc]
    ELSE LET Continue(r) ==
                 IF r.exc /\ ~(name_bound \/ r.bound) THEN [exc |-> TRUE, tools |-> r.tools]
                 ELSE ParsePluginsGuarded(fe, plugins, i + 1, r.tools, name_bound \/ r.bound)
         IN Continue(ParsePlugin(fe, plugins[i], acc))

\* The parse of a 200 JSON body: exc (an exception left the parse), store (the
\* function goes on to store the list) and the list built.
ParseCatalog(fe, data) ==
    IF "plugins" \notin DOMAIN data
    THEN [exc |-> FALSE, store |-> fe # "dify", tools |-> <<>>]
    ELSE LET Parsed(r) == [exc |-> r.exc, store |-> ~r.exc, tools |-> r.tools]
         IN Parsed(IF fe = "dify"
                   THEN ParsePluginsGuarded(fe, data.plugins, 1, <<>>, FALSE)
                   ELSE ParsePluginsUnguarded(fe, data.plugins, 1, <<>>))

-----------------------------------------------------------------------------
(* The Tool Cache and the Catalog Fetcher *)

\* A cache entry.  dify stores {"tools", "timestamp"}; http and sse store the
\* list alone, and `timestamp` then only records when the entry was stored.
Entry(tools, ts) == [tools |-> tools, timestamp |-> ts]

PLUGINS_LIST_URL == SUPERIOR_API_BASE \o "/manager/module/plugins/list_v3"

Headers(tok) == ("token" :> tok) @@ ("Content-Type" :> "application/json")

\* session.post(PLUGINS_LIST_URL, headers=headers, json={})
CatalogRequest(tok) ==
    [kind |-> "catalog", method |-> "POST", url |-> <<Lit(PLUGINS_LIST_URL)>>,
     headers |-> Headers(tok), query |-> EmptyDict, json |-> EmptyDict]

\* What the upstream (or the network) does with a catalog request.
CatalogOutcomes(tok) ==
    {[kind |-> "status"], [kind |-> "neterr"]} \cup
    (IF tok \in IssuedTokens
     THEN {[kind |-> "nonjson"]} \cup {[kind |-> "ok", body |-> b] : b \in CatalogBodies}
     ELSE {})

\* Fault: the store appends to the entry it finds instead of replacing it.
StoreMerging(cache, tok, tools, clock) ==
    Put(cache, tok,
        Entry((IF tok \in DOMAIN cache THEN cache[tok].tools ELSE <<>>) \o tools, clock))

\* Fault: one list for every credential; the store writes the list to every
\* entry of the cache.
StoreForAll(cache, tok, tools, clock) ==
    [k \in DOMAIN cache \cup {tok} |-> Entry(tools, clock)]

\* tools_cache[token] = tools (http, sse);
\* tools_cache[token] = {"tools": tools, "timestamp": time.time()} (dify)
Store(cache, tok, tools, clock) == Put(cache, tok, Entry(tools, clock))

\* What fetch_tools hands to its caller: the list, the cache as the call left
\* it, where the list came from ("gate", "cache", "fetch", "failed") and
\* whether the call raised instead of returning.
Fetched(tools, cache, source) ==
    [kind |-> "return", exc |-> FALSE, tools |-> tools, cache |-> cache, source |-> source]

\* Fault: the cache lookup is skipped, every admitted call asks the upstream.
FetchBeginUncached(fe, cache, clock, tok) ==
    IF fe # "dify" /\ (Falsy(tok) \/ Len(tok) < MinTokenLen)
    THEN Fetched(<<>>, cache, "gate")
    ELSE IF tok = None THEN Fetched(<<>>, cache, "failed")
    ELSE [kind |-> "request", cache |-> cache]

\* fetch_tools up to its first await: the credential checks and the cache
\* lookup.  kind "return": the function returns `tools`; kind "request": it
\* issues the catalog request and awaits the response.
FetchBegin(fe, cache, clock, tok) ==
    IF fe # "dify"
    THEN IF Falsy(tok) \/ Len(tok) < MinTokenLen
         THEN Fetched(<<>>, cache, "gate")
         ELSE IF tok \in DOMAIN cache
         THEN Fetched(cache[tok].tools, cache, "cache")
         ELSE [kind |-> "request", cache |-> cache]
    ELSE IF tok \in DOMAIN cache /\ clock - cache[tok].timestamp < CACHE_TTL
         THEN Fetched(cache[tok].tools, cache, "cache")
         ELSE LET swept == IF tok \in DOMAIN cache THEN Del(cache, tok) ELSE cache IN
              IF tok = None
              \* a header value of None: the HTTP client raises before it writes
              \* a request, and `except Exception` returns []
              THEN Fetched(<<>>, swept, "failed")
              ELSE [kind |-> "request", cache |-> swept]

\* The try block of fetch_tools from the response on: exc says an exception
\* left the block.
FetchBody(fe, cache, clock, tok, out) ==
    LET empty == [exc |-> FALSE, tools |-> <<>>, cache |-> cache, source |-> "failed"]
        raised == [exc |-> TRUE, tools |-> <<>>, cache |-> cache, source |-> "failed"]
        Parsed(p) ==
            IF p.exc THEN raised
            ELSE IF p.store
            THEN [exc |-> FALSE, tools |-> p.tools,
                  cache |-> Store(cache, tok, p.tools, clock), source |-> "fetch"]
            ELSE empty
    IN CASE out.kind = "neterr" -> raised
         [] out.kind = "status" -> empty
         [] out.kind = "nonjson" -> IF fe = "dify" THEN raised ELSE empty
         [] out.kind = "ok" -> Parsed(ParseCatalog(fe, out.body))

\* Fault: fetch_tools without its except clauses; an exception of the try block
\* reaches the caller.
FetchFinishUncaught(fe, cache, clock, tok, out) ==
    LET Return(b) == [kind |-> "return", exc |-> b.exc, tools |-> b.tools,
                      cache |-> b.cache, source |-> b.source]
    IN Return(FetchBody(fe, cache, clock, tok, out))

\* Fault: a failed fetch stores the empty list it returns.
FetchFinishStoringEmpty(fe, cache, clock, tok, out) ==
    LET Return(b) == IF b.exc \/ b.source = "failed"
                     THEN Fetched(<<>>, Store(cache, tok, <<>>, clock), "failed")
                     ELSE Fetched(b.tools, b.cache, b.source)
    IN Return(FetchBody(fe, cache, clock, tok, out))

\* fetch_tools from the response to its return: the except clauses turn every
\* exception into an empty list.
FetchFinish(fe, cache, clock, tok, out) ==
    LET Return(b) == IF b.exc THEN Fetched(<<>>, cache, "failed")
                     ELSE Fetched(b.tools, b.cache, b.source)
    IN Return(FetchBody(fe, cache, clock, tok, out))

-----------------------------------------------------------------------------
(* The Tool Invoker *)

\* target_tool = None / tool_meta = None
NoTarget == [found |-> FALSE]

\* for tool in tools: if tool['name'] == tool_name: ...; break
RECURSIVE FindToolFrom(_, _, _)
FindToolFrom(tools, name, i) ==
    IF i > Len(tools) THEN NoTarget
    ELSE IF tools[i].name = name THEN tools[i]
    ELSE FindToolFrom(tools, name, i + 1)

FindTool(tools, name) == FindToolFrom(tools, name, 1)

\* full_url = f"{base_url}{path}"
FullUrl(tool) == <<Lit(tool.base_url)>> \o tool.path

\* str(value) of an argument value
Str(v) == v

\* dify: the loop over original_spec['parameters'] that fills the query, path
\* and header buckets.
RECURSIVE RouteParams(_, _, _, _)
RouteParams(params_list, arguments, i, buckets) ==
    IF i > Len(params_list) THEN buckets
    ELSE LET param_def == params_list[i]
             param_in == Get(param_def, "in", "query")
             present == "name" \in DOMAIN param_def /\ param_def.name \in DOMAIN arguments
             value == arguments[param_def.name]
         IN RouteParams(params_list, arguments, i + 1,
              IF ~present THEN buckets
              ELSE IF param_in = "query"
              THEN [buckets EXCEPT !.query = Put(@, param_def.name, value)]
              ELSE IF param_in = "path"
              THEN [buckets EXCEPT !.path = Put(@, param_def.name, value)]
              ELSE IF param_in = "header"
              THEN [buckets EXCEPT !.header = Put(@, param_def.name, value)]
              ELSE buckets)

\* final_url.replace("{name}", str(value)) for every path parameter
ReplacePlaceholders(url, path_params) ==
    [i \in DOMAIN url |->
        IF url[i].ph /\ url[i].text \in DOMAIN path_params
        THEN Lit(Str(path_params[url[i].text]))
        ELSE url[i]]

\* The one upstream request of a tool call.
\* http, sse: GET sends all arguments as the query string, every other method
\* sends them as the JSON body; the URL is base_url + path as cached.
\* dify: GET and DELETE route the declared parameters, POST/PUT/PATCH put all
\* arguments in the body; only session.get passes the query bucket.
BuildRequest(fe, tok, tool, arguments) ==
    LET base == [kind |-> "invoke", method |-> tool.method, headers |-> Headers(tok)] IN
    IF fe # "dify"
    THEN IF tool.method = "GET"
         THEN base @@ [url |-> FullUrl(tool), query |-> arguments]
         ELSE base @@ [url |-> FullUrl(tool), query |-> EmptyDict, json |-> arguments]
    ELSE LET original_spec == tool.original_spec
             none == [query |-> EmptyDict, path |-> EmptyDict, header |-> EmptyDict]
             buckets == IF tool.method \in {"GET", "DELETE"} /\ "parameters" \in DOMAIN original_spec
                        THEN RouteParams(original_spec.parameters, arguments, 1, none)
                        ELSE none
             body_params == IF ~(tool.method \in {"GET", "DELETE"} /\ "parameters" \in DOMAIN original_spec)
                               /\ tool.method \in {"POST", "PUT", "PATCH"}
                            THEN arguments ELSE EmptyDict
             headers == buckets.header @@ Headers(tok)
             final_url == ReplacePlaceholders(FullUrl(tool), buckets.path)
         IN IF tool.method = "GET"
            THEN [kind |-> "invoke", method |-> "GET", headers |-> headers,
                  url |-> final_url, query |-> buckets.query]
            ELSE [kind |-> "invoke", method |-> tool.method, headers |-> headers,
                  url |-> final_url, query |-> EmptyDict, json |-> body_params]

\* The failure returned when no descriptor has the name.
NotFound(fe, name) ==
    IF fe = "dify" THEN [error |-> "Tool not found"]
    ELSE [success |-> FALSE, error |-> "tool does not exist", content |-> ""]

\* Response bodies of the upstream tool endpoints: a JSON text and a plain text.
BodyJsonText == "{\"ok\": 1}"
BodyPlainText == "plain text"

\* json.loads on the response bodies
JsonLoads(text) ==
    IF text = BodyJsonText THEN [exc |-> FALSE, value |-> [ok |-> 1]]
    ELSE [exc |-> TRUE]

\* response.status == 200
StatusOK == 200

\* The statuses the upstream tool endpoints answer with.
InvokeStatuses == {StatusOK, 404}

\* What the upstream (or the network) does with a tool request.
InvokeOutcomes ==
    {[kind |-> "resp", status |-> st, body |-> b] :
        st \in InvokeStatuses, b \in {BodyJsonText, BodyPlainText}}
    \cup {[kind |-> "neterr"], [kind |-> "timeout"]}

\* call_tool from the response to its return.
InvokeFinish(fe, out) ==
    IF fe # "dify"
    THEN CASE out.kind = "resp" ->
                [success |-> (out.status = StatusOK), content |-> out.body,
                 status_code |-> out.status]
           [] out.kind = "neterr" ->
                [success |-> FALSE, error |-> "network error", content |-> ""]
           [] out.kind = "timeout" ->
                [success |-> FALSE, error |-> "timeout", content |-> ""]
    ELSE CASE out.kind = "resp" ->
                LET j == JsonLoads(out.body) IN
                IF j.exc THEN [result |-> out.body] ELSE j.value
           [] out.kind = "neterr" -> [error |-> "network error"]
           [] out.kind = "timeout" -> [error |-> "timeout"]

-----------------------------------------------------------------------------
(* The JSON-RPC handlers: tools/list and tools/call of handle_mcp_request   *)
(* (http), handle_mcp_messages (sse) and mcp_endpoint (dify).               *)

JsonRpcResult(r) == [kind |-> "result", result |-> r]
JsonRpcError(code) == [kind |-> "error", code |-> code]
HttpError(status) == [kind |-> "http_error", status |-> status]

\* The tool objects of a tools/list result.  http and dify copy the public
\* fields of each descriptor; sse returns the cached descriptors themselves.
PublicTools(fe, tools) ==
    IF fe = "sse" THEN tools
    ELSE [i \in DOMAIN tools |->
            [name |-> tools[i].name, description |-> tools[i].description,
             inputSchema |-> IF fe = "dify" THEN tools[i].parameters
                             ELSE tools[i].inputSchema]]

ToolsListResponse(fe, tools) == JsonRpcResult([tools |-> PublicTools(fe, tools)])

\* The credential checks a handler makes before it calls the fetcher or the
\* invoker.  http: a missing token, and for tools/list a short one, is answered
\* with -32002.  sse: a missing token raises HTTPException(401).  dify:
\* extract_token raises HTTPException(401) when it finds no token, and the
\* endpoint's `except Exception` answers -32603.
AuthFailure(fe, op, tok) ==
    CASE fe = "http" ->
            IF Falsy(tok) \/ (op = "tools/list" /\ Len(tok) < MinTokenLen)
            THEN JsonRpcError(-32002) ELSE NoTarget
      [] fe = "sse" -> IF Falsy(tok) THEN HttpError(401) ELSE NoTarget
      [] fe = "dify" -> IF tok = None THEN JsonRpcError(-32603) ELSE NoTarget

\* if not tool_name: invalid params (http, dify); sse has no such check.
NameFailure(fe, name) ==
    IF fe # "sse" /\ (name = None \/ name = "") THEN JsonRpcError(-32602) ELSE NoTarget

\* The reply of tools/call to what the invoker returned.
ToolsCallResponse(fe, ret) ==
    IF fe = "dify"
    THEN JsonRpcResult([content |-> <<[type |-> "text", text |-> [dumps |-> ret]]>>])
    ELSE IF Get(ret, "success", FALSE)
    THEN JsonRpcResult([content |-> <<[type |-> "text", text |-> Get(ret, "content", "")]>>])
    ELSE JsonRpcError(-32603)

\* What the operation hands back: the function's value, or the handler's reply.
CallReply(fe, op, ret) == IF op = "call_tool" THEN ret ELSE ToolsCallResponse(fe, ret)

-----------------------------------------------------------------------------
(* Tasks *)

FetchOps == {"fetch_tools", "tools/list"}
CallOps == {"call_tool", "tools/call"}

NoReq == [op |-> "none"]
NoResult == [none |-> TRUE]
NoOutcome == [kind |-> "none"]

\* cache_data before fetch_superior_tools has read an entry.
NoEntry == [none |-> TRUE]

\* Locals of a coroutine: the list fetch_tools returned (tools), where it came
\* from (source), the catalog response the call received (outcome), the
\* descriptor the invoker resolved (target) and the response of the tool
\* endpoint (reply), none until it arrives; cache_data is the expired entry
\* dify's fetch_superior_tools has read and deleted before it asks upstream.
Locals(tools, source, outcome, target) ==
    [tools |-> tools, source |-> source, outcome |-> outcome, target |-> target,
     reply |-> NoOutcome, cache_data |-> NoEntry]

InitLoc == Locals(<<>>, "none", NoOutcome, NoTarget)

\* The tool names and argument maps requests are made with.
ToolNames == {"get_forecast", "get_station", "delete_station", "does_not_exist"}

\* params.get("name") of a tools/call request: a tool name, or missing, or empty.
ParamNames == ToolNames \cup {None, ""}

ArgsCity == [city |-> "Taipei"]
ArgsStation ==
    [id |-> "42", reason |-> "old", token |-> "tok_argument"] @@ ("X-Trace" :> "abc")

ArgMaps == {EmptyDict, ArgsCity, ArgsStation}

Step(p, l, s, r, c) == [pc |-> p, loc |-> l, sent |-> s, result |-> r, cache |-> c]

\* The invoker from the resolution of the descriptor to the dispatch of the
\* request (or the not-found return).
Dispatch(fe, rq, f, outcome, sentv) ==
    LET target == FindTool(f.tools, rq.name) IN
    IF target = NoTarget
    THEN Step("done", Locals(f.tools, f.source, outcome, NoTarget), sentv,
              CallReply(fe, rq.op, NotFound(fe, rq.name)), f.cache)
    ELSE Step("await_invoke", Locals(f.tools, f.source, outcome, target),
              Append(sentv, BuildRequest(fe, rq.token, target, rq.args)),
              NoResult, f.cache)

\* The caller of fetch_tools once the call is over.  An exception out of
\* fetch_tools reaches a direct caller as it is, and a handler's catch-all
\* answers it with -32603.
AfterFetch(fe, rq, f, outcome, sentv) ==
    LET l == Locals(f.tools, f.source, outcome, NoTarget) IN
    IF f.exc
    THEN Step("done", l, sentv,
              IF rq.op \in {"fetch_tools", "call_tool"} THEN [raised |-> TRUE]
              ELSE JsonRpcError(-32603), f.cache)
    ELSE CASE rq.op = "fetch_tools" -> Step("done", l, sentv, [tools |-> f.tools], f.cache)
           [] rq.op = "tools/list" ->
                Step("done", l, sentv, ToolsListResponse(fe, f.tools), f.cache)
           [] rq.op \in CallOps -> Dispatch(fe, rq, f, outcome, sentv)

\* A call of fetch_tools up to the await of the catalog response, or through
\* to the caller when it returns without awaiting.
BeginFetch(fe, cache, clock, rq) ==
    LET f == FetchBegin(fe, cache, clock, rq.token) IN
    IF f.kind = "return" THEN AfterFetch(fe, rq, f, NoOutcome, <<>>)
    ELSE Step("await_catalog",
              [InitLoc EXCEPT !.cache_data =
                 IF fe = "dify" /\ rq.token \in DOMAIN cache
                 THEN cache[rq.token] ELSE NoEntry],
              <<CatalogRequest(rq.token)>>, NoResult, f.cache)

\* call_tool up to its first await.  http and sse read tools_cache.get(token,
\* []) and never fetch; dify calls fetch_superior_tools first.
BeginCall(fe, cache, clock, rq) ==
    IF fe = "dify" THEN BeginFetch(fe, cache, clock, rq)
    ELSE LET hit == rq.token \in DOMAIN cache
             f == Fetched(IF hit THEN cache[rq.token].tools ELSE <<>>, cache,
                          IF hit THEN "cache" ELSE "none")
         IN Dispatch(fe, rq, f, NoOutcome, <<>>)

\* A handler up to its first await.
BeginHandler(fe, cache, clock, rq) ==
    LET auth == AuthFailure(fe, rq.op, rq.token)
        named == NameFailure(fe, rq.name)
    IN IF auth # NoTarget THEN Step("done", InitLoc, <<>>, auth, cache)
       ELSE IF rq.op = "tools/list" THEN BeginFetch(fe, cache, clock, rq)
       ELSE IF named # NoTarget THEN Step("done", InitLoc, <<>>, named, cache)
       ELSE BeginCall(fe, cache, clock, rq)

Begin(fe, cache, clock, rq) ==
    CASE rq.op = "fetch_tools" -> BeginFetch(fe, cache, clock, rq)
      [] rq.op = "call_tool" -> BeginCall(fe, cache, clock, rq)
      [] rq.op \in {"tools/list", "tools/call"} -> BeginHandler(fe, cache, clock, rq)

Apply(t, rq, s) ==
    /\ req' = [req EXCEPT ![t] = rq]
    /\ pc' = [pc EXCEPT ![t] = s.pc]
    /\ loc' = [loc EXCEPT ![t] = s.loc]
    /\ sent' = [sent EXCEPT ![t] = s.sent]
    /\ result' = [result EXCEPT ![t] = s.result]
    /\ tools_cache' = s.cache

-----------------------------------------------------------------------------
(* Sessions of the JSON-RPC endpoint *)

\* The Mcp-Session-Id header of a request: not sent, or the id the client has.
SidClient == "sid_client"
SessionHeaders == {None, SidClient}

\* str(uuid.uuid4()): the n-th value generated.
Uuid(n) == "uuid_" \o ToString(n)

\* session_id = extract_session_id(request)
\* if not session_id: session_id = generate_session_id()
SessionId(given, n) == IF Falsy(given) THEN Uuid(n + 1) ELSE given

\* The header mcp_endpoint sets on its `response` parameter:
\* response.headers["Mcp-Session-Id"] = session_id, when it generated the id.
InjectedHeader(given, sid) == IF Falsy(given) THEN sid ELSE None

\* The Mcp-Session-Id header of the response that is sent.  Every return of
\* mcp_endpoint is a JSONResponse the function builds without headers; the
\* headers set on the `response` parameter belong to another object and are
\* merged only into a response the framework builds from a returned value.
SentHeader(returns_response_object, injected) ==
    IF returns_response_object THEN None ELSE injected

\* given: the header received; used: the local session_id; injected: the
\* header on the `response` parameter; echoed: the header on the response sent.
NoSession == [given |-> None, used |-> None, injected |-> None, echoed |-> None]

SessionOf(given, n) ==
    [given |-> given,
     used |-> SessionId(given, n),
     injected |-> InjectedHeader(given, SessionId(given, n)),
     echoed |-> SentHeader(TRUE, InjectedHeader(given, SessionId(given, n)))]

\* handle_mcp_request: if session_id not in session_store: create the entry.
\* Of an entry the model keeps `initialized`.
Touch(store, sid) ==
    IF sid \in DOMAIN store THEN store ELSE Put(store, sid, [initialized |-> FALSE])

\* handle_initialize: session_store[session_id]["initialized"] = True
MarkInitialized(store, sid) == Put(store, sid, [initialized |-> TRUE])

\* A request that returns before handle_mcp_request is called.
Untouched(store, sid) == store

\* The session part of one request to the endpoint: http reads or generates
\* the session id and `store` is session_store as the request leaves it; sse
\* reads the header for its log; dify has no sessions.
WithSession(t, given, store) ==
    IF server = "http"
    THEN /\ Falsy(given) => uuids < MaxUuids
         /\ uuids' = IF Falsy(given) THEN uuids + 1 ELSE uuids
         /\ session' = [session EXCEPT ![t] = SessionOf(given, uuids)]
         /\ session_store' = store
         /\ UNCHANGED <<active_connections, stream>>
    ELSE /\ session' = [session EXCEPT ![t] = [NoSession EXCEPT !.given = given]]
         /\ UNCHANGED <<session_store, active_connections, stream, uuids>>

\* A streaming connection before it is opened.
NoStream ==
    [pc |-> "none", client_type |-> "none", session_id |-> None,
     events |-> <<>>, heartbeat_counter |-> 0, disconnected |-> FALSE,
     client_id |-> None, connected |-> FALSE, listed |-> FALSE]

-----------------------------------------------------------------------------
(* Actions *)

Init ==
    /\ server \in FrontEnds
    /\ now = 0
    /\ tools_cache = EmptyDict
    /\ pc = [t \in Tasks |-> "idle"]
    /\ req = [t \in Tasks |-> NoReq]
    /\ loc = [t \in Tasks |-> InitLoc]
    /\ sent = [t \in Tasks |-> <<>>]
    /\ result = [t \in Tasks |-> NoResult]
    /\ session_store = EmptyDict
    /\ active_connections = EmptyDict
    /\ stream = [c \in Conns |-> NoStream]
    /\ session = [t \in Tasks |-> NoSession]
    /\ uuids = 0

FetchRequest(op, tok) == [op |-> op, token |-> tok, name |-> "", args |-> EmptyDict]
CallRequest(op, tok, name, args) == [op |-> op, token |-> tok, name |-> name, args |-> args]

\* A direct call of fetch_tools(tok).
StartFetchTools(t) ==
    /\ pc[t] = "idle"
    /\ \E tok \in Tokens :
         LET rq == FetchRequest("fetch_tools", tok) IN
         Apply(t, rq, Begin(server, tools_cache, now, rq))
    /\ UNCHANGED <<server, now, aux>>

\* A direct call of fetch_tools with the credential every task of a race uses.
StartFetchSameToken(t) ==
    /\ pc[t] = "idle"
    /\ LET rq == FetchRequest("fetch_tools", "tok_valid_A") IN
       Apply(t, rq, Begin(server, tools_cache, now, rq))
    /\ UNCHANGED <<server, now, aux>>

\* A tools/list JSON-RPC request.
StartToolsList(t) ==
    /\ pc[t] = "idle"
    /\ \E tok \in Tokens :
         LET rq == FetchRequest("tools/list", tok) IN
         Apply(t, rq, Begin(server, tools_cache, now, rq))
    /\ WithSession(t, SidClient, Touch(session_store, SidClient))
    /\ UNCHANGED <<server, now>>

\* A direct call of call_tool(tok, name, args).
StartCallTool(t) ==
    /\ pc[t] = "idle"
    /\ \E tok \in Tokens, name \in ToolNames, args \in ArgMaps :
         LET rq == CallRequest("call_tool", tok, name, args) IN
         Apply(t, rq, Begin(server, tools_cache, now, rq))
    /\ UNCHANGED <<server, now, aux>>

\* Two clients, each with a credential of its own: task 1 works with
\* tok_valid_A and task 2 with tok_valid_B.
CredentialOf(t) == IF t = 1 THEN "tok_valid_A" ELSE "tok_valid_B"

\* fetch_tools with the credential of the task's client.
StartFetchWith(t) ==
    /\ pc[t] = "idle"
    /\ LET rq == FetchRequest("fetch_tools", CredentialOf(t)) IN
       Apply(t, rq, Begin(server, tools_cache, now, rq))
    /\ UNCHANGED <<server, now, aux>>

\* call_tool with the credential of the task's client.
StartCallWith(t) ==
    /\ pc[t] = "idle"
    /\ \E name \in {"get_forecast", "does_not_exist"} :
         LET rq == CallRequest("call_tool", CredentialOf(t), name, ArgsCity) IN
         Apply(t, rq, Begin(server, tools_cache, now, rq))
    /\ UNCHANGED <<server, now, aux>>

\* A tools/call JSON-RPC request.
StartToolsCall(t) ==
    /\ pc[t] = "idle"
    /\ \E tok \in Tokens, name \in ParamNames, args \in ArgMaps :
         LET rq == CallRequest("tools/call", tok, name, args) IN
         Apply(t, rq, Begin(server, tools_cache, now, rq))
    /\ WithSession(t, SidClient, Touch(session_store, SidClient))
    /\ UNCHANGED <<server, now>>

\* extract_token(request) on a request that carries credentials in the places r.
StartExtractToken(t) ==
    /\ pc[t] = "idle"
    /\ \E r \in CredentialPlaces :
         Apply(t, [op |-> "extract_token", places |-> r],
               Step("done", InitLoc, <<>>, [token |-> extract_token(server, r)],
                    tools_cache))
    /\ UNCHANGED <<server, now, aux>>

\* Schemas flatten_enum is applied to: a value that is not an object; string
\* properties without and with an enum and a description; arrays without
\* items, of strings and of arrays; objects, with an enum of their own or
\* without, whose one property is any of these; each of them also as the one
\* property of a root schema.
ScalarValue == [scalar |-> "text"]

Choices == <<"a", "b">>

Leaves ==
    {[type |-> "string"],
     [type |-> "string", enum |-> Choices],
     [type |-> "string", enum |-> Choices, description |-> "d"]}

ArraysOf(schemas) ==
    {[type |-> "array", items |-> x] : x \in schemas}
    \cup {[type |-> "array", enum |-> Choices, items |-> x] :
            x \in {y \in schemas : "description" \in DOMAIN y}}

ObjectsOf(schemas) ==
    {[type |-> "object", properties |-> [p |-> x]] : x \in schemas}
    \cup {[type |-> "object", enum |-> Choices, properties |-> [p |-> x]] :
            x \in schemas}

Shallow == Leaves \cup ArraysOf(Leaves) \cup {[type |-> "array"]}

Nested == Shallow \cup ArraysOf(ArraysOf(Leaves)) \cup ObjectsOf(Shallow)

Schemas ==
    {ScalarValue} \cup Nested
    \cup {[type |-> "object", properties |-> [q |-> x]] : x \in Nested}

\* flatten_enum(schema) is called: the value it returns and the schema the
\* caller still holds.
StartFlatten(t) ==
    /\ pc[t] = "idle"
    /\ server # "dify"
    /\ \E schema \in Schemas :
         Apply(t, [op |-> "flatten_enum", schema |-> schema],
               Step("done", InitLoc, <<>>,
                    [kind |-> "flattened",
                     value |-> flatten_enum(server, schema),
                     schema |-> AfterFlatten(server, schema)],
                    tools_cache))
    /\ UNCHANGED <<server, now, aux>>

\* An exception left the function that was called.
Escaped(e) == [kind |-> "escaped", exception |-> e]

\* Config: every property reads its environment variable when it is used;
\* a variable that is not set is None here and gives the default.
DefaultEnv ==
    [SUPERIOR_API_BASE |-> None, HTTP_SERVER_PORT |-> None,
     SSE_SERVER_PORT |-> None, LOG_LEVEL |-> None]

Getenv(env, name, default) == IF env[name] = None THEN default ELSE env[name]

\* Values of the environment: base URLs, port texts and log levels.
BaseUrls == {None, "http://localhost:9000", "ftp://files.example"}
PortTexts == {None, "0", "1", "65535", "65536", "-1", "abc", ""}
LogLevels == {None, "DEBUG", "warning", "TRACE"}

Envs ==
    [SUPERIOR_API_BASE : BaseUrls, HTTP_SERVER_PORT : PortTexts,
     SSE_SERVER_PORT : PortTexts, LOG_LEVEL : LogLevels]

\* The integers the port texts and the defaults stand for.
PortNumbers == {-1, 0, 1, 8000, 8080, 65535, 65536}

\* int(text): the integer written as text; ValueError when text is not a
\* numeral.
IsNumeral(text) == \E n \in PortNumbers : ToString(n) = text
ParseInt(text) == CHOOSE n \in PortNumbers : ToString(n) = text

\* superior_api_base.startswith("http")
StartsWithHttp(base) ==
    \E rest \in {"://localhost:9000", "s://superiorapis-creator.cteam.com.tw"} :
        base = "http" \o rest

\* log_level.upper()
UpperLevel(level) ==
    CASE level = "warning" -> "WARNING"
      [] OTHER -> level

superior_api_base(env) ==
    Getenv(env, "SUPERIOR_API_BASE", "https://superiorapis-creator.cteam.com.tw")
http_server_port(env) == ParseInt(Getenv(env, "HTTP_SERVER_PORT", "8000"))
sse_server_port(env) == ParseInt(Getenv(env, "SSE_SERVER_PORT", "8080"))
log_level(env) == Getenv(env, "LOG_LEVEL", "INFO")

\* The list of errors.
ErrorList(errors) == [kind |-> "list", errors |-> errors]

\* Config.validate(): the four checks in order, each adding one message; a
\* port property that raises ends the call with that exception.
validate(env) ==
    LET base == IF StartsWithHttp(superior_api_base(env)) THEN <<>>
                ELSE <<"SUPERIOR_API_BASE">>
        Port(port, name) == IF 1 <= port /\ port <= 65535 THEN <<>> ELSE <<name>>
        level == IF UpperLevel(log_level(env))
                      \in {"DEBUG", "INFO", "WARNING", "ERROR", "CRITICAL"}
                 THEN <<>> ELSE <<"LOG_LEVEL">>
    IN IF \/ ~IsNumeral(Getenv(env, "HTTP_SERVER_PORT", "8000"))
          \/ ~IsNumeral(Getenv(env, "SSE_SERVER_PORT", "8080"))
       THEN Escaped("ValueError")
       ELSE ErrorList(base \o Port(http_server_port(env), "HTTP_SERVER_PORT")
                      \o Port(sse_server_port(env), "SSE_SERVER_PORT") \o level)

\* config.validate() is called under one environment.
StartValidate(t) ==
    /\ pc[t] = "idle"
    /\ server # "dify"
    /\ \E env \in Envs :
         Apply(t, [op |-> "validate", env |-> env],
               Step("done", InitLoc, <<>>, validate(env), tools_cache))
    /\ UNCHANGED <<server, now, aux>>

\* JSON-RPC method names other than tools/list and tools/call: the handshake,
\* the notification every client sends after it, another notification, and
\* a method no front-end implements.
MethodNames ==
    {"initialize", "notifications/initialized", "notifications/cancelled",
     "resources/list"}

\* Responses that carry no JSON-RPC member: sse's Response(status_code=204)
\* and dify's JSONResponse({}).
NoContent == [kind |-> "no_content", status |-> 204]
EmptyObject == [kind |-> "empty_object"]

\* The branch of the method dispatch a request with one of these names takes.
\* sse extracts the token before it looks at the method.
MethodResponse(fe, method, tok) ==
    IF fe = "sse" /\ Falsy(tok) THEN HttpError(401)
    ELSE IF method = "initialize" THEN JsonRpcResult([serverInfo |-> fe])
    ELSE IF fe # "http" /\ method = "notifications/initialized"
         THEN IF fe = "sse" THEN NoContent ELSE EmptyObject
    ELSE JsonRpcError(-32601)

\* A JSON-RPC request whose method is neither tools/list nor tools/call.
StartMethod(t) ==
    /\ pc[t] = "idle"
    /\ \E method \in MethodNames, tok \in Tokens :
         /\ Apply(t, [op |-> "method", method |-> method, token |-> tok],
                  Step("done", InitLoc, <<>>, MethodResponse(server, method, tok),
                       tools_cache))
         /\ IF method = "initialize"
            THEN WithSession(t, SidClient, MarkInitialized(session_store, SidClient))
            ELSE WithSession(t, SidClient, Touch(session_store, SidClient))
    /\ UNCHANGED <<server, now>>

\* POST bodies that are not JSON: no bytes at all, text that is not JSON,
\* and bytes that are not text in any Unicode encoding.
InvalidBodies == {"empty", "malformed", "undecodable"}

\* The exception json.loads(body) raises on such a body.
JsonLoadsRaises(body) ==
    IF body = "undecodable" THEN "UnicodeDecodeError" ELSE "JSONDecodeError"

\* The answer to a POST with such a body.  http answers the empty body
\* itself and catches JSONDecodeError around json.loads; sse catches
\* JSONDecodeError around the whole handler; every other exception, and in
\* dify every exception, reaches `except Exception`.
ParseFailure(fe, body) ==
    IF fe = "http" /\ body = "empty" THEN JsonRpcError(-32700)
    ELSE IF fe # "dify" /\ JsonLoadsRaises(body) = "JSONDecodeError"
         THEN JsonRpcError(-32700)
    ELSE JsonRpcError(-32603)

\* A POST whose body is not JSON.
StartPostInvalid(t) ==
    /\ pc[t] = "idle"
    /\ \E body \in InvalidBodies :
         Apply(t, [op |-> "post", body |-> body],
               Step("done", InitLoc, <<>>, ParseFailure(server, body), tools_cache))
    /\ WithSession(t, SidClient, Untouched(session_store, SidClient))
    /\ UNCHANGED <<server, now>>

\* JSON values a POST carries as its body or as one item of an array: a
\* request object with one of three methods that need no upstream call, an
\* object without `method`, and a number.
ItemKinds ==
    {"initialize", "notifications/initialized", "resources/list", "no_method", "number"}

IsObject(item) == item # "number"

\* Arrays of at most n items.
RECURSIVE ItemSeqs(_)
ItemSeqs(n) ==
    IF n = 0 THEN {<<>>}
    ELSE ItemSeqs(n - 1) \cup
         {Append(q, item) : q \in {x \in ItemSeqs(n - 1) : Len(x) = n - 1},
                            item \in ItemKinds}

\* JSON bodies: one value, or an array of values.
PostBodies ==
    {[array |-> FALSE, items |-> <<item>>] : item \in ItemKinds}
    \cup {[array |-> TRUE, items |-> q] : q \in ItemSeqs(MaxBatch)}

\* The JSONResponse of a batch.
BatchResponse(responses) == [kind |-> "batch", responses |-> responses]

\* http: req = MCPRequest(**item); result = await handle_mcp_request(...) in
\* its try, and the except branch that reads item.get("id").  `raised` says
\* that the except branch itself raised (item is not a dict).
HttpItem(item, tok, store, sid) ==
    IF ~IsObject(item)
    THEN [raised |-> TRUE, response |-> NoResult, store |-> store]
    ELSE IF item = "no_method"
    THEN [raised |-> FALSE, response |-> JsonRpcError(-32600), store |-> store]
    ELSE [raised |-> FALSE,
          response |-> MethodResponse("http", item, tok),
          store |-> IF item = "initialize" THEN MarkInitialized(store, sid)
                    ELSE Touch(store, sid)]

\* http: for item in data: ... responses.append(...)
RECURSIVE HttpBatch(_, _, _, _, _, _)
HttpBatch(items, i, tok, store, sid, responses) ==
    IF i > Len(items)
    THEN [raised |-> FALSE, responses |-> responses, store |-> store]
    ELSE LET Continue(r) ==
                 IF r.raised
                 THEN [raised |-> TRUE, responses |-> responses, store |-> r.store]
                 ELSE HttpBatch(items, i + 1, tok, r.store, sid,
                                Append(responses, r.response))
         IN Continue(HttpItem(items[i], tok, store, sid))

\* The POST branch of http's mcp_endpoint on a JSON body: a list is a batch,
\* anything else a single request; what raises in an except branch reaches
\* the outer `except Exception`.
HttpPost(body, tok, store, sid) ==
    IF body.array
    THEN LET Return(r) ==
                 [result |-> IF r.raised THEN JsonRpcError(-32603)
                             ELSE BatchResponse(r.responses),
                  store |-> r.store]
         IN Return(HttpBatch(body.items, 1, tok, store, sid, <<>>))
    ELSE LET Return(r) ==
                 [result |-> IF r.raised THEN JsonRpcError(-32603) ELSE r.response,
                  store |-> r.store]
         IN Return(HttpItem(body.items[1], tok, store, sid))

\* sse's handle_mcp_messages on a JSON body: body.get raises on a list or a
\* number, and the `except Exception` branch calls body.get again; an object
\* without method takes the final else after the token check.
SsePost(body, tok) ==
    IF body.array \/ ~IsObject(body.items[1]) THEN Escaped("AttributeError")
    ELSE IF Falsy(tok) THEN HttpError(401)
    ELSE IF body.items[1] = "no_method" THEN JsonRpcError(-32601)
    ELSE MethodResponse("sse", body.items[1], tok)

\* dify's mcp_endpoint on a JSON body: body.get raises on a list or a number
\* and `except Exception` answers; a missing method is the method "".
DifyPost(body, tok) ==
    IF body.array \/ ~IsObject(body.items[1]) THEN JsonRpcError(-32603)
    ELSE IF body.items[1] = "no_method" THEN JsonRpcError(-32601)
    ELSE MethodResponse("dify", body.items[1], tok)

PostResult(fe, body, tok, store, sid) ==
    CASE fe = "http" -> HttpPost(body, tok, store, sid).result
      [] fe = "sse" -> SsePost(body, tok)
      [] fe = "dify" -> DifyPost(body, tok)

\* A POST to the JSON-RPC endpoint with a JSON body.
StartPost(t) ==
    /\ pc[t] = "idle"
    /\ \E body \in PostBodies, tok \in {None, "tok_valid_A"}, given \in SessionHeaders :
         /\ Apply(t, [op |-> "post_json", body |-> body, token |-> tok],
                  Step("done", InitLoc, <<>>,
                       PostResult(server, body, tok, session_store,
                                  SessionId(given, uuids)),
                       tools_cache))
         /\ WithSession(t, given,
                        HttpPost(body, tok, session_store,
                                 SessionId(given, uuids)).store)
    /\ UNCHANGED <<server, now>>

\* http: the payload every GET /mcp is answered with.
GetPayload == JsonRpcResult([instructions |-> "POST JSON-RPC 2.0 requests"])

\* GET /mcp.  http answers with its payload before it reads anything else;
\* dify handles the request as a tools/list with id 1; sse has no such route.
StartGet(t) ==
    /\ pc[t] = "idle"
    /\ server # "sse"
    /\ \E tok \in Tokens, given \in SessionHeaders :
         /\ IF server = "http"
            THEN Apply(t, [op |-> "get", verb |-> "GET", token |-> tok],
                       Step("done", InitLoc, <<>>, GetPayload, tools_cache))
            ELSE LET rq == FetchRequest("tools/list", tok) @@ [verb |-> "GET"] IN
                 Apply(t, rq, Begin(server, tools_cache, now, rq))
         /\ WithSession(t, given, Untouched(session_store, SessionId(given, uuids)))
    /\ UNCHANGED <<server, now>>

\* The catalog response arrives: fetch_tools runs to its return, and its
\* caller on to its own return or next await.
CatalogResponse(t) ==
    /\ pc[t] = "await_catalog"
    /\ \E out \in CatalogOutcomes(req[t].token) :
         \E f \in {FetchFinish(server, tools_cache, now, req[t].token, out)} :
            Apply(t, req[t], AfterFetch(server, req[t], f, out, sent[t]))
    /\ UNCHANGED <<server, now, aux>>

\* The tool response arrives: call_tool runs to its return.
InvokeResponse(t) ==
    /\ pc[t] = "await_invoke"
    /\ \E out \in InvokeOutcomes :
         Apply(t, req[t], Step("done", [loc[t] EXCEPT !.reply = out], sent[t],
                               CallReply(server, req[t].op, InvokeFinish(server, out)),
                               tools_cache))
    /\ UNCHANGED <<server, now, aux>>

\* The task ends; its slot serves the next request.
Finish(t) ==
    /\ pc[t] = "done"
    /\ Apply(t, NoReq, Step("idle", InitLoc, <<>>, NoResult, tools_cache))
    /\ session' = [session EXCEPT ![t] = NoSession]
    /\ UNCHANGED <<server, now, session_store, active_connections, stream, uuids>>

\* Time passes.
Tick ==
    /\ now < MaxTicks * TickSeconds(server)
    /\ now' = now + TickSeconds(server)
    /\ UNCHANGED <<server, tools_cache, pc, req, loc, sent, result, aux>>

\* dify: POST /clear-cache.  The body is read only when the content-type header
\* equals "application/json"; a truthy body token clears that entry, anything
\* else clears the whole cache.
ClearCacheInputs ==
    [content_type : {"application/json", "application/json; charset=utf-8"},
     token : Tokens]

clear_cache(cache, rq) ==
    LET token == IF rq.content_type = "application/json" THEN rq.token ELSE None IN
    IF ~Falsy(token)
    THEN IF token \in DOMAIN cache THEN Del(cache, token) ELSE cache
    ELSE EmptyDict

ClearCache ==
    /\ server = "dify"
    /\ \E rq \in ClearCacheInputs : tools_cache' = clear_cache(tools_cache, rq)
    /\ UNCHANGED <<server, now, pc, req, loc, sent, result, aux>>

\* dify: POST /clear-cache as the request of a task; the answer is
\* {"status": "ok"} whatever was cleared.
StartClearCache(t) ==
    /\ server = "dify"
    /\ pc[t] = "idle"
    /\ \E rq \in ClearCacheInputs :
         Apply(t, [op |-> "clear_cache", content_type |-> rq.content_type,
                   token |-> rq.token],
               Step("done", InitLoc, <<>>, [status |-> "ok"],
                    clear_cache(tools_cache, rq)))
    /\ UNCHANGED <<server, now, aux>>

-----------------------------------------------------------------------------
(* Streaming connections of the sse server: GET /sse (cursor) and *)
(* GET /api/v1/mcp/sse (langflow).                                *)

ClientTypes == {"cursor", "langflow"}

\* connection_id: "cursor_conn_<timestamp>" with the microsecond clock, or a
\* uuid4; two connections never get the same one.
ConnId(c) == "conn_" \o ToString(c)

\* The events a generator yields.
Connected == [method |-> "notifications/initialized", count |-> 0]
Heartbeat(n) == [method |-> "notifications/ping", count |-> n]

\* Fault: the counter advances by two.
NextCountSkipping(heartbeat_counter) == heartbeat_counter + 2

\* heartbeat_counter += 1
NextCount(heartbeat_counter) == heartbeat_counter + 1

\* Fault: the registries keep the entry.
PopNothing(registry, key) == registry

\* registry.pop(key, None)
Pop(registry, key) == IF key \in DOMAIN registry THEN Del(registry, key) ELSE registry

\* The endpoint function up to its return: 401 without a token or with one
\* shorter than 10 characters; otherwise the ids are chosen and the
\* StreamingResponse is returned.  langflow connections have no session.
Connect(c) ==
    /\ server = "sse"
    /\ stream[c].pc = "none"
    /\ \E client_type \in ClientTypes, tok \in Tokens, given \in SessionHeaders :
         IF Falsy(tok) \/ Len(tok) < MinTokenLen
         THEN /\ stream' = [stream EXCEPT ![c] = [NoStream EXCEPT !.pc = "rejected"]]
              /\ UNCHANGED uuids
         ELSE IF client_type = "cursor"
         THEN /\ Falsy(given) => uuids < MaxUuids
              /\ uuids' = IF Falsy(given) THEN uuids + 1 ELSE uuids
              /\ stream' = [stream EXCEPT ![c] =
                     [NoStream EXCEPT !.pc = "accepted", !.client_type = client_type,
                                      !.session_id = SessionId(given, uuids)]]
         ELSE /\ stream' = [stream EXCEPT ![c] =
                     [NoStream EXCEPT !.pc = "accepted", !.client_type = client_type]]
              /\ UNCHANGED uuids
    /\ UNCHANGED <<server, now, tools_cache, pc, req, loc, sent, result,
                   session_store, active_connections, session>>

\* The generator from its start to its first yield: it registers the
\* connection, and for cursor the session, and emits the connected event.
StreamOpen(c) ==
    /\ stream[c].pc = "accepted"
    /\ active_connections' =
         Put(active_connections, ConnId(c),
             [session_id |-> stream[c].session_id, client_type |-> stream[c].client_type])
    /\ session_store' =
         IF stream[c].client_type = "cursor"
         THEN Put(session_store, stream[c].session_id, [connection_id |-> ConnId(c)])
         ELSE session_store
    /\ stream' = [stream EXCEPT ![c].pc = "checking", ![c].events = <<Connected>>]
    /\ UNCHANGED <<server, now, tools_cache, pc, req, loc, sent, result, session, uuids>>

\* finally: active_connections.pop(connection_id, None), and for cursor
\* session_store.pop(session_id, None).
Cleanup(c) ==
    /\ active_connections' = Pop(active_connections, ConnId(c))
    /\ session_store' =
         IF stream[c].client_type = "cursor"
         THEN Pop(session_store, stream[c].session_id)
         ELSE session_store

\* One turn of the loop: if request.is_disconnected() the loop is left and
\* the generator ends; otherwise the counter advances and a heartbeat is
\* emitted.
StreamCheck(c) ==
    /\ stream[c].pc = "checking"
    /\ IF stream[c].disconnected
       THEN /\ stream' = [stream EXCEPT ![c].pc = "closed"]
            /\ Cleanup(c)
       ELSE /\ stream[c].heartbeat_counter < MaxHeartbeats
            /\ stream' = [stream EXCEPT
                   ![c].pc = "sleeping",
                   ![c].heartbeat_counter = NextCount(@),
                   ![c].events = Append(@, Heartbeat(NextCount(stream[c].heartbeat_counter)))]
            /\ UNCHANGED <<active_connections, session_store>>
    /\ UNCHANGED <<server, now, tools_cache, pc, req, loc, sent, result, session, uuids>>

\* await asyncio.sleep(HEARTBEAT_INTERVAL) returns.
StreamWake(c) ==
    /\ stream[c].pc = "sleeping"
    /\ stream' = [stream EXCEPT ![c].pc = "checking"]
    /\ UNCHANGED <<server, now, tools_cache, pc, req, loc, sent, result,
                   session_store, active_connections, session, uuids>>

\* The client goes away.
ClientDisconnect(c) ==
    /\ stream[c].pc \in {"accepted", "checking", "sleeping"}
    /\ ~stream[c].disconnected
    /\ stream' = [stream EXCEPT ![c].disconnected = TRUE]
    /\ UNCHANGED <<server, now, tools_cache, pc, req, loc, sent, result,
                   session_store, active_connections, session, uuids>>

\* An exception reaches the generator where it is suspended: CancelledError,
\* ConnectionResetError or any other.  Each handler only logs, then finally
\* runs.
StreamRaise(c) ==
    /\ stream[c].pc \in {"checking", "sleeping"}
    /\ \E e \in {"CancelledError", "ConnectionResetError", "Exception"} :
         stream' = [stream EXCEPT ![c].pc = "closed"]
    /\ Cleanup(c)
    /\ UNCHANGED <<server, now, tools_cache, pc, req, loc, sent, result, session, uuids>>

-----------------------------------------------------------------------------
(* WebSocket connections of the http server: /ws/{client_id}.  A connection *)
(* object is stream[c]: `connected` is its flag, `listed` says that it is   *)
(* in manager.active_connections, client_id is the path parameter.          *)

ClientIds == {"client_a", "client_b", "client_c"}

\* manager.connect after websocket.accept(), the write to active_connections
\* and the call of send_message with the welcome message.
WsConnect(c) ==
    /\ server = "http"
    /\ stream[c].pc = "none"
    /\ \E client_id \in ClientIds :
         /\ stream' = [stream EXCEPT ![c] =
                [NoStream EXCEPT !.pc = "ws_sending", !.client_type = "websocket",
                                 !.client_id = client_id, !.connected = TRUE,
                                 !.listed = TRUE]]
         /\ active_connections' =
                Put(active_connections, client_id,
                    [client_type |-> "websocket", connection_id |-> client_id])
    /\ UNCHANGED <<server, now, tools_cache, pc, req, loc, sent, result,
                   session_store, session, uuids>>

\* send_message returns: websocket.send_text succeeded, or it raised and the
\* except branch set connected = False.  Then `while connection.connected`:
\* the loop goes on to receive_text, or it is left and the handler returns.
WsSent(c) ==
    /\ stream[c].pc = "ws_sending"
    /\ \E ok \in BOOLEAN :
         stream' = [stream EXCEPT ![c].connected = ok,
                                  ![c].pc = IF ok THEN "ws_receiving" ELSE "closed"]
    /\ UNCHANGED <<server, now, tools_cache, pc, req, loc, sent, result,
                   session_store, active_connections, session, uuids>>

\* manager.disconnect(connection) and active_connections.pop(client_id, None)
WsCleanup(c) ==
    /\ stream' = [stream EXCEPT ![c].pc = "closed", ![c].listed = FALSE]
    /\ active_connections' = Pop(active_connections, stream[c].client_id)

\* receive_text returns a message that is answered with send_message (a type
\* that is not known, or a request without token).
WsMessage(c) ==
    /\ stream[c].pc = "ws_receiving"
    /\ stream' = [stream EXCEPT ![c].pc = "ws_sending"]
    /\ UNCHANGED <<server, now, tools_cache, pc, req, loc, sent, result,
                   session_store, active_connections, session, uuids>>

\* receive_text raises WebSocketDisconnect, or it or json.loads raises
\* another exception: both except branches clean up.
WsRaise(c) ==
    /\ stream[c].pc = "ws_receiving"
    /\ \E e \in {"WebSocketDisconnect", "Exception"} : WsCleanup(c)
    /\ UNCHANGED <<server, now, tools_cache, pc, req, loc, sent, result,
                   session_store, session, uuids>>

NextWs ==
    \/ \E c \in Conns : WsConnect(c)
    \/ \E c \in Conns : WsSent(c)
    \/ \E c \in Conns : WsMessage(c)
    \/ \E c \in Conns : WsRaise(c)

SpecWs == Init /\ [][NextWs]_vars

NextStream ==
    \/ \E c \in Conns : Connect(c)
    \/ \E c \in Conns : StreamOpen(c)
    \/ \E c \in Conns : StreamCheck(c)
    \/ \E c \in Conns : StreamWake(c)
    \/ \E c \in Conns : ClientDisconnect(c)
    \/ \E c \in Conns : StreamRaise(c)

SpecStream == Init /\ [][NextStream]_vars

\* The event loop runs every generator that can run, and timers fire.
SpecStreamLive ==
    /\ SpecStream
    /\ \A c \in Conns :
         WF_vars(StreamOpen(c)) /\ WF_vars(StreamCheck(c)) /\ WF_vars(StreamWake(c))

\* Requests to the JSON-RPC endpoint, one after the other.
NextEndpoint ==
    \/ StartGet(1)
    \/ StartPost(1)
    \/ CatalogResponse(1)
    \/ Finish(1)

SpecEndpoint == Init /\ [][NextEndpoint]_vars

\* Concurrent fetches: NumTasks tasks call fetch_tools.
Next ==
    \/ \E t \in Tasks : StartFetchTools(t)
    \/ \E t \in Tasks : CatalogResponse(t)
    \/ \E t \in Tasks : Finish(t)
    \/ Tick
    \/ ClearCache

Spec == Init /\ [][Next]_vars

\* Concurrent fetches for one credential: NumTasks tasks call fetch_tools with
\* the same credential.
NextRace ==
    \/ \E t \in Tasks : StartFetchSameToken(t)
    \/ \E t \in Tasks : CatalogResponse(t)
    \/ \E t \in Tasks : Finish(t)
    \/ Tick
    \/ ClearCache

SpecRace == Init /\ [][NextRace]_vars

\* Credential extraction alone, one request after the other.
NextExtract ==
    \/ StartExtractToken(1)
    \/ Finish(1)

SpecExtract == Init /\ [][NextExtract]_vars

\* flatten_enum alone, one call after the other.
NextFlatten ==
    \/ StartFlatten(1)
    \/ Finish(1)

SpecFlatten == Init /\ [][NextFlatten]_vars

\* Config.validate alone, one call after the other.
NextConfig ==
    \/ StartValidate(1)
    \/ Finish(1)

SpecConfig == Init /\ [][NextConfig]_vars

\* Fetches and cache clearing, one request after the other.
NextClear ==
    \/ StartFetchTools(1)
    \/ CatalogResponse(1)
    \/ StartClearCache(1)
    \/ Finish(1)

SpecClear == Init /\ [][NextClear]_vars

\* Tool listing and tool calls of two tasks at once, each with its credential.
NextIsolation ==
    \/ \E t \in Tasks : StartFetchWith(t)
    \/ \E t \in Tasks : StartCallWith(t)
    \/ \E t \in Tasks : CatalogResponse(t)
    \/ \E t \in Tasks : InvokeResponse(t)
    \/ \E t \in Tasks : Finish(t)
    \/ Tick

SpecIsolation == Init /\ [][NextIsolation]_vars

\* Requests one after the other: one task runs every operation.
NextCall ==
    \/ StartFetchTools(1)
    \/ StartToolsList(1)
    \/ StartCallTool(1)
    \/ StartToolsCall(1)
    \/ StartMethod(1)
    \/ StartPostInvalid(1)
    \/ CatalogResponse(1)
    \/ InvokeResponse(1)
    \/ Finish(1)
    \/ Tick
    \/ ClearCache

SpecCall == Init /\ [][NextCall]_vars


-----------------------------------------------------------------------------
(* Properties *)

\* The entry of tok exists and was stored less than the configured lifetime ago.
Fresh(fe, cache, clock, tok) ==
    tok \in DOMAIN cache /\ clock - cache[tok].timestamp < TTL(fe)

\* The names of the operations the upstream catalog serves as tools.
CatalogToolNames == {"get_forecast", "get_station", "delete_station"}

\* C1 (cache coalescing): two fetch_tools calls for the same credential that
\* are in flight at the same time, neither having stored a result yet, have
\* issued at most one upstream catalog request between them.
CacheCoalescing ==
    \A t1, t2 \in Tasks :
        (/\ t1 # t2
         /\ pc[t1] = "await_catalog" /\ pc[t2] = "await_catalog"
         /\ req[t1].token = req[t2].token)
        => Len(sent[t1]) + Len(sent[t2]) <= 1

\* C2 (credential gating): no upstream request, catalog fetch or tool
\* invocation, ever carries a missing, empty or shorter-than-10-character
\* credential, and fetch_tools called with such a credential returns the empty
\* list.
CredentialGating ==
    \A t \in Tasks :
        /\ \A i \in DOMAIN sent[t] : ValidCredential(sent[t][i].headers["token"])
        /\ (pc[t] = "done" /\ req[t].op = "fetch_tools" /\ ~ValidCredential(req[t].token))
           => result[t] = [tools |-> <<>>]

\* C3 (tool resolution at call time): a call_tool or tools/call with a valid
\* credential that ends without resolving a tool of the upstream catalog has
\* looked the tool up in a cached descriptor set or in a set it fetched during
\* the call; it never fails for want of an earlier tools/list.
ResolutionAtCallTime ==
    \A t \in Tasks :
        (/\ pc[t] = "done"
         /\ req[t].op \in CallOps
         /\ ValidCredential(req[t].token)
         /\ req[t].name \in CatalogToolNames
         /\ loc[t].target = NoTarget)
        => (loc[t].source = "cache" \/ loc[t].outcome.kind # "none")

\* C4 (TTL guarantee): in every front-end, a list that fetch_tools returns from
\* the cache was stored less than the configured TTL before the current clock.
TTLGuarantee ==
    [][\A t \in Tasks :
         (/\ pc[t] = "idle" /\ pc'[t] = "done"
          /\ req'[t].op = "fetch_tools"
          /\ loc'[t].source = "cache")
         => Fresh(server, tools_cache, now, req'[t].token)]_vars

\* C5 (warm path): a fetch_tools call that finds a non-expired entry for its
\* credential returns exactly the cached list, issues no upstream request and
\* leaves the cache as it was.
WarmPath ==
    [][\A t \in Tasks :
         (/\ pc[t] = "idle" /\ pc'[t] # "idle"
          /\ req'[t].op = "fetch_tools"
          /\ Fresh(server, tools_cache, now, req'[t].token))
         => /\ pc'[t] = "done"
            /\ result'[t] = [tools |-> tools_cache[req'[t].token].tools]
            /\ sent'[t] = <<>>
            /\ tools_cache' = tools_cache]_vars

\* A fetch_tools call has returned a non-empty list from the cache without
\* an upstream request.
WarmPathReached ==
    \E t \in Tasks :
        /\ pc[t] = "done" /\ req[t].op = "fetch_tools"
        /\ loc[t].source = "cache" /\ loc[t].tools # <<>>
        /\ sent[t] = <<>>
        /\ req[t].token \in DOMAIN tools_cache
        /\ tools_cache[req[t].token].tools = loc[t].tools

\* C6 (no torn cache state): whenever the entry of a credential appears or
\* changes, it is written by one fetch_tools call for that credential that has
\* just received a 200 catalog, and it holds exactly the complete list parsed
\* from that one catalog, which is also what the call returns; whatever the
\* entry held before is gone.
NoTornCacheState ==
    [][\A tok \in Tokens :
         (/\ tok \in DOMAIN tools_cache'
          /\ (tok \notin DOMAIN tools_cache \/ tools_cache'[tok] # tools_cache[tok]))
         => \E t \in Tasks :
              /\ pc[t] = "await_catalog" /\ pc'[t] = "done"
              /\ req[t].token = tok
              /\ loc'[t].outcome.kind = "ok"
              /\ tools_cache'[tok].tools = ParseCatalog(server, loc'[t].outcome.body).tools
              /\ result'[t] = [tools |-> tools_cache'[tok].tools]]_vars

\* Two concurrent fetch_tools calls for one credential have both fetched, with
\* different catalogs, and the entry holds the list of one of them.
LastWriterWon ==
    \E t1, t2 \in Tasks :
        /\ t1 # t2
        /\ pc[t1] = "done" /\ pc[t2] = "done"
        /\ req[t1].token = req[t2].token
        /\ loc[t1].source = "fetch" /\ loc[t2].source = "fetch"
        /\ loc[t1].tools # <<>> /\ loc[t2].tools # loc[t1].tools
        /\ req[t1].token \in DOMAIN tools_cache
        /\ tools_cache[req[t1].token].tools = loc[t2].tools

\* C7 (unknown tool): call_tool with a name that matches no descriptor returns
\* a result carrying success = false, and the call has made no upstream request
\* of any kind.
UnknownTool ==
    \A t \in Tasks :
        (pc[t] = "done" /\ req[t].op = "call_tool" /\ req[t].name = "does_not_exist")
        => /\ "success" \in DOMAIN result[t]
           /\ result[t].success = FALSE
           /\ sent[t] = <<>>

\* C8 (graceful upstream failure): when the catalog request ends in a non-200
\* status, a non-JSON body or a network error, fetch_tools returns the empty
\* list without raising, and tools/list with a valid credential answers a
\* result with tools = [] rather than a JSON-RPC error.
GracefulUpstreamFailure ==
    \A t \in Tasks :
        (/\ pc[t] = "done"
         /\ req[t].op \in FetchOps
         /\ loc[t].outcome.kind \in {"status", "nonjson", "neterr"})
        => /\ loc[t].tools = <<>>
           /\ req[t].op = "fetch_tools" => result[t] = [tools |-> <<>>]
           /\ (req[t].op = "tools/list" /\ ValidCredential(req[t].token))
              => result[t] = JsonRpcResult([tools |-> <<>>])

\* A tools/list request with a valid credential has been answered after the
\* catalog request failed.
UpstreamFailureAnswered ==
    \E t \in Tasks :
        /\ pc[t] = "done" /\ req[t].op = "tools/list"
        /\ ValidCredential(req[t].token)
        /\ loc[t].outcome.kind \in {"status", "nonjson", "neterr"}
        /\ result[t].kind = "result"

\* The list holds every descriptor of `part`.
ContainsAll(list, part) ==
    \A j \in DOMAIN part : \E k \in DOMAIN list : list[k] = part[j]

\* C9 (partial-failure tolerance): when fetch_tools has received a 200 catalog
\* with a plugins list, the list it returns holds the descriptors of every
\* plugin of the catalog that parses without raising, whatever the other
\* plugins of the catalog do.
PartialFailureTolerance ==
    \A t \in Tasks :
        (/\ pc[t] = "done"
         /\ req[t].op = "fetch_tools"
         /\ loc[t].outcome.kind = "ok"
         /\ "plugins" \in DOMAIN loc[t].outcome.body)
        => \A i \in DOMAIN loc[t].outcome.body.plugins :
             ~ParsePlugin(server, loc[t].outcome.body.plugins[i], <<>>).exc
             => ContainsAll(result[t].tools,
                            ParsePlugin(server, loc[t].outcome.body.plugins[i], <<>>).tools)

\* The request carries the argument `value` of the declared parameter where the
\* parameter's `in` says: query string, substituted URL path or header.
Carried(rq, param_def, value) ==
    CASE Get(param_def, "in", "query") = "query" ->
            param_def.name \in DOMAIN rq.query /\ rq.query[param_def.name] = value
      [] Get(param_def, "in", "query") = "path" ->
            /\ \E i \in DOMAIN rq.url : rq.url[i] = Lit(Str(value))
            /\ \A i \in DOMAIN rq.url : rq.url[i] # Ph(param_def.name)
      [] Get(param_def, "in", "query") = "header" ->
            param_def.name \in DOMAIN rq.headers /\ rq.headers[param_def.name] = value
      [] OTHER -> TRUE

\* C10 (parameter routing for GET and DELETE): the request dispatched for a GET
\* or DELETE tool whose spec declares parameters carries every declared
\* parameter present in the arguments in its declared location, query when
\* `in` is unspecified.
ParameterRouting ==
    \A t \in Tasks :
        (/\ pc[t] = "await_invoke"
         /\ loc[t].target.method \in {"GET", "DELETE"}
         /\ "parameters" \in DOMAIN loc[t].target.original_spec)
        => \A i \in DOMAIN loc[t].target.original_spec.parameters :
             ("name" \in DOMAIN loc[t].target.original_spec.parameters[i]
              /\ loc[t].target.original_spec.parameters[i].name \in DOMAIN req[t].args)
             => Carried(sent[t][Len(sent[t])],
                        loc[t].target.original_spec.parameters[i],
                        req[t].args[loc[t].target.original_spec.parameters[i].name])

\* C11 (path substitution): in the URL of the dispatched request every
\* placeholder of the tool's path whose name is a key of the arguments is
\* replaced by the stringified value, and every other placeholder is left in
\* the URL as it is.
PathSubstitution ==
    \A t \in Tasks :
        pc[t] = "await_invoke"
        => \A i \in DOMAIN loc[t].target.path :
             loc[t].target.path[i].ph
             => sent[t][Len(sent[t])].url[i + 1] =
                  IF loc[t].target.path[i].text \in DOMAIN req[t].args
                  THEN Lit(Str(req[t].args[loc[t].target.path[i].text]))
                  ELSE loc[t].target.path[i]

\* C12 (response normalization): a call_tool that received an upstream
\* response returns success = (status = 200) with content equal to the raw
\* body text, and for a status other than 200 the result keeps the status code.
ResponseNormalization ==
    \A t \in Tasks :
        (pc[t] = "done" /\ req[t].op = "call_tool" /\ loc[t].reply.kind = "resp")
        => /\ {"success", "content"} \subseteq DOMAIN result[t]
           /\ result[t].success = (loc[t].reply.status = StatusOK)
           /\ result[t].content = loc[t].reply.body
           /\ loc[t].reply.status # StatusOK
              => ("status_code" \in DOMAIN result[t]
                  /\ result[t].status_code = loc[t].reply.status)

\* C13 (no exception escapes the invoker): a call_tool whose upstream request
\* ended in a network error or a timeout returns, without raising, a result
\* carrying success = false and an error message.
InvokerNeverRaises ==
    \A t \in Tasks :
        (/\ pc[t] = "done" /\ req[t].op = "call_tool"
         /\ loc[t].reply.kind \in {"neterr", "timeout"})
        => /\ "raised" \notin DOMAIN result[t]
           /\ {"success", "error"} \subseteq DOMAIN result[t]
           /\ result[t].success = FALSE

\* The invocation of a tools/call has ended and succeeded / failed.
Invoked(t) ==
    /\ pc[t] = "done" /\ req[t].op = "tools/call"
    /\ ValidCredential(req[t].token) /\ req[t].name \in ToolNames
InvocationSucceeded(t) ==
    Invoked(t) /\ loc[t].reply.kind = "resp" /\ loc[t].reply.status = StatusOK
InvocationFailed(t) ==
    Invoked(t) /\ ~InvocationSucceeded(t)

\* C14 (tools/call outcome mapping): a tools/call whose invocation succeeded
\* is answered with a result holding one content block of type "text" with
\* the response text, and one whose invocation failed (tool not found,
\* non-200 status, transport error) with the JSON-RPC error -32603.
ToolsCallOutcomeMapping ==
    \A t \in Tasks :
        /\ InvocationSucceeded(t)
           => result[t] = JsonRpcResult(
                  [content |-> <<[type |-> "text", text |-> loc[t].reply.body]>>])
        /\ InvocationFailed(t) => result[t] = JsonRpcError(-32603)

\* C15 (tools/call requires params.name): a tools/call with a valid credential
\* whose params have no name, or an empty one, is answered with the JSON-RPC
\* error -32602, and the invoker has not been called: no lookup was made and
\* no request was sent.
ToolsCallRequiresName ==
    \A t \in Tasks :
        (/\ pc[t] = "done" /\ req[t].op = "tools/call"
         /\ ValidCredential(req[t].token)
         /\ req[t].name \in {None, ""})
        => /\ result[t] = JsonRpcError(-32602)
           /\ sent[t] = <<>>

\* C16 (tools/list authentication): a tools/list request in which no
\* credential is found, or whose credential is shorter than 10 characters, is
\* answered with HTTP 401 or a JSON-RPC error in the -3200x range, never with
\* a tools result or the internal error -32603.
ToolsListAuthentication ==
    \A t \in Tasks :
        (pc[t] = "done" /\ req[t].op = "tools/list" /\ ~ValidCredential(req[t].token))
        => \/ result[t] = HttpError(401)
           \/ (result[t].kind = "error" /\ result[t].code \in -32009..-32000)

\* The credential the stated order selects: the first non-empty one of the
\* token header, the Bearer token of Authorization and the token query
\* parameter.
BearerToken(auth) == IF auth = "Bearer tok_bearer_01" THEN "tok_bearer_01" ELSE ""
FirstInOrder(r) ==
    IF ~Falsy(r.header_token) THEN r.header_token
    ELSE IF BearerToken(r.authorization) # "" THEN BearerToken(r.authorization)
    ELSE r.query_token
\* The places among the three that carry a non-empty credential.
CarriedIn(r) ==
    {place \in {"header", "bearer", "query"} :
        CASE place = "header" -> ~Falsy(r.header_token)
          [] place = "bearer" -> BearerToken(r.authorization) # ""
          [] place = "query" -> ~Falsy(r.query_token)}

\* C17 (credential precedence): when a request carries credentials in more
\* than one of the token header, Authorization: Bearer and the token query
\* parameter, extract_token returns the first non-empty one in that order.
CredentialPrecedence ==
    \A t \in Tasks :
        (/\ pc[t] = "done" /\ req[t].op = "extract_token"
         /\ Cardinality(CarriedIn(req[t].places)) > 1)
        => result[t].token = FirstInOrder(req[t].places)

\* The fields of a tool object a client may see, and the fields of a cached
\* descriptor that hold its call metadata (the content of _meta, _api_info).
PublicFields == {"name", "description", "inputSchema"}
MetaFields == {"base_url", "path", "method", "plugin_name", "original_spec"}

\* C18 (tools/list hides internal metadata): each tool of a tools/list result
\* has exactly the public fields name, description and inputSchema; the call
\* metadata of the cached descriptor never appears.
ToolsListHidesMetadata ==
    \A t \in Tasks :
        (pc[t] = "done" /\ req[t].op = "tools/list" /\ result[t].kind = "result")
        => \A i \in DOMAIN result[t].result.tools :
             /\ DOMAIN result[t].result.tools[i] = PublicFields
             /\ DOMAIN result[t].result.tools[i] \cap MetaFields = {}

\* C19 (notifications acknowledged): a request whose method is
\* notifications/initialized or any other notifications/* name is
\* acknowledged without a result payload and is never answered with a
\* JSON-RPC error such as -32601.
NotificationsAcknowledged ==
    \A t \in Tasks :
        (/\ pc[t] = "done" /\ req[t].op = "method"
         /\ req[t].method \in {"notifications/initialized", "notifications/cancelled"})
        => result[t] \in {NoContent, EmptyObject}

\* C20 (parse error): a POST whose body is not valid JSON is answered with
\* the JSON-RPC error -32700 and with no other error code.
ParseErrorCode ==
    \A t \in Tasks :
        (pc[t] = "done" /\ req[t].op = "post" /\ req[t].body \in InvalidBodies)
        => result[t] = JsonRpcError(-32700)

\* The descriptors of a list that have the name, in list order.
Named(tools, name) == SelectSeq(tools, LAMBDA d : d.name = name)

\* C28 (name collisions): descriptors with equal names are all kept, and a
\* call of that name is dispatched to the method and path of the descriptor
\* that comes last in the list.
NameCollisions ==
    \A t \in Tasks :
        (pc[t] = "await_invoke" /\ Len(Named(loc[t].tools, req[t].name)) > 1)
        => LET last == Named(loc[t].tools, req[t].name)[Len(Named(loc[t].tools, req[t].name))]
           IN /\ loc[t].target.method = last.method
              /\ loc[t].target.path = last.path
              /\ sent[t][Len(sent[t])].method = last.method

\* The names an operation declares: the properties and the required fields of
\* its requestBody schemas, its parameters and those marked required.
DeclaredBodyProps(spec) ==
    UNION {DOMAIN b.properties : b \in {x \in BodySchemas(spec) : "properties" \in DOMAIN x}}
DeclaredBodyRequired(spec) ==
    UNION {{b.required[k] : k \in DOMAIN b.required} :
             b \in {x \in BodySchemas(spec) : "required" \in DOMAIN x}}
DeclaredParams(spec) ==
    IF "parameters" \in DOMAIN spec
    THEN {spec.parameters[k] : k \in DOMAIN spec.parameters}
    ELSE {}

\* The stated input schema of a descriptor.
SchemaAsStated(d) ==
    /\ "inputSchema" \in DOMAIN d
    /\ {"type", "properties"} \subseteq DOMAIN d.inputSchema
    /\ d.inputSchema.type = "object"
    /\ DOMAIN d.inputSchema.properties =
         DeclaredBodyProps(d.original_spec)
         \cup {p.name : p \in DeclaredParams(d.original_spec)}
    /\ \A p \in DeclaredParams(d.original_spec) :
         "schema" \notin DOMAIN p => d.inputSchema.properties[p.name].type = "string"
    /\ LET required == Get(d.inputSchema, "required", <<>>)
       IN {required[k] : k \in DOMAIN required} =
            DeclaredBodyRequired(d.original_spec)
            \cup {p.name : p \in {q \in DeclaredParams(d.original_spec) :
                                    Get(q, "required", FALSE)}}

\* C30 (tool synthesis): the inputSchema of every descriptor is an object
\* schema whose properties are the requestBody properties together with the
\* declared parameters, a parameter without a type being a string, and whose
\* required list holds the required body fields and the required
\* parameters; get_forecast has exactly the schema of the stated example.
ToolSynthesis ==
    \A tok \in DOMAIN tools_cache :
        \A k \in DOMAIN tools_cache[tok].tools :
            LET d == tools_cache[tok].tools[k] IN
            /\ SchemaAsStated(d)
            /\ d.name = "get_forecast"
               => d.inputSchema =
                    [type |-> "object",
                     properties |-> [city |-> [type |-> "string", description |-> ""]],
                     required |-> <<"city">>]

\* The verbs the filter lets through, as a descriptor records them.
AllowedMethods == {"GET", "POST", "PUT", "DELETE"}

\* The operations of a catalog body: one per plugin, path and method key.
Operations(body) ==
    IF "plugins" \notin DOMAIN body THEN {}
    ELSE UNION {
           LET plugin == Get(body.plugins[i], "plugin", <<>>) IN
           IF IsNull(plugin) THEN {}
           ELSE LET paths == Get(Get(plugin, "interface", <<>>), "paths", <<>>) IN
                UNION {{[plugin_name |-> Get(plugin, "name_for_model", "unknown"),
                         path |-> paths[j].path,
                         verb |-> paths[j].methods[k].method] :
                          k \in DOMAIN paths[j].methods} : j \in DOMAIN paths}
           : i \in DOMAIN body.plugins}

\* The descriptors of a list made from the operation.
MadeFrom(tools, o) ==
    {k \in DOMAIN tools :
        /\ tools[k].plugin_name = o.plugin_name
        /\ tools[k].path = o.path
        /\ tools[k].method \in {"GET", "POST", "PUT", "DELETE", "HEAD", "PATCH"}
        /\ Lower(o.verb) = Lower(tools[k].method)}

\* The verb of the operation is one of get, post, put and delete in any case.
AllowedVerb(o) == \E m \in AllowedMethods : Lower(m) = Lower(o.verb)

WellOrdered(events) ==
    \A k \in DOMAIN events :
        events[k] = IF k = 1 THEN Connected ELSE Heartbeat(k - 1)

\* C22 (SSE event ordering): on every accepted streaming connection the
\* first event is the connected notification, every later event is a
\* heartbeat, the heartbeat count starts at 1 and grows by exactly 1, and no
\* event is emitted once the disconnect has been observed or the connection
\* has been cancelled.
SSEEventOrdering ==
    [][\A c \in Conns :
          /\ WellOrdered(stream'[c].events)
          /\ stream[c].pc = "closed" => stream'[c].events = stream[c].events]_vars

\* A connection that emitted the connected event and two heartbeats has
\* ended after its client disconnected.
HeartbeatsThenClosed ==
    \E c \in Conns :
        /\ stream[c].pc = "closed" /\ stream[c].disconnected
        /\ Len(stream[c].events) = 3

\* The connection has no entry in either registry: none under its connection
\* id, and none under its session id that names it.
Released(c) ==
    /\ ConnId(c) \notin DOMAIN active_connections
    /\ \A sid \in DOMAIN session_store : session_store[sid].connection_id # ConnId(c)

\* C23 (streaming cleanup): the step in which a streaming connection ends,
\* by an observed disconnect, a cancellation, a connection reset or any
\* other error, removes its entry from active_connections and its session
\* entry from session_store; and from some moment on every connection whose
\* client has disconnected has no registry entries.
StreamingCleanup ==
    /\ [][\A c \in Conns :
            (stream[c].pc # "closed" /\ stream'[c].pc = "closed")
            => /\ ConnId(c) \notin DOMAIN active_connections'
               /\ stream[c].client_type = "cursor"
                  => stream[c].session_id \notin DOMAIN session_store']_vars
    /\ <>[](\A c \in Conns : stream[c].disconnected => Released(c))

\* A registered cursor connection has ended and its entries are gone while
\* another connection is still registered.
CleanedWhileOtherLive ==
    \E c, other \in Conns :
        /\ c # other
        /\ stream[c].pc = "closed" /\ stream[c].client_type = "cursor"
        /\ stream[c].events # <<>> /\ Released(c)
        /\ ConnId(other) \in DOMAIN active_connections

\* The JSON value is a request object the front-end can dispatch.
WellFormedItem(item) == item \notin {"no_method", "number"}

\* C21 (batch processing): a POST /mcp whose body is an array of n items is
\* answered with an array of n responses, the i-th answering the i-th item:
\* an error response for a malformed item of any JSON type, and for every
\* other item the response the same request gets on its own.
BatchProcessing ==
    \A t \in Tasks :
        (/\ server = "http" /\ pc[t] = "done"
         /\ req[t].op = "post_json" /\ req[t].body.array)
        => /\ result[t].kind = "batch"
           /\ Len(result[t].responses) = Len(req[t].body.items)
           /\ \A i \in DOMAIN req[t].body.items :
                IF WellFormedItem(req[t].body.items[i])
                THEN result[t].responses[i] =
                       MethodResponse(server, req[t].body.items[i], req[t].token)
                ELSE result[t].responses[i].kind = "error"

\* C24 (GET /mcp has no side effects): a GET /mcp is answered with the static
\* payload, and no step of its handling issues an upstream request or
\* changes tools_cache or session_store.
GetHasNoSideEffects ==
    [][\A t \in Tasks :
          ("verb" \in DOMAIN req'[t] /\ (req'[t] # req[t] \/ pc'[t] # pc[t]))
          => /\ sent'[t] = <<>>
             /\ tools_cache' = tools_cache
             /\ session_store' = session_store
             /\ pc'[t] = "done" => result'[t] = GetPayload]_vars

\* C25 (session id echo): when a request carries no Mcp-Session-Id header and
\* the server generates a session id, the response sent carries that id in
\* its Mcp-Session-Id header.
SessionIdEcho ==
    \A t \in Tasks :
        (/\ server = "http" /\ pc[t] = "done"
         /\ req[t].op \in {"get", "post_json"}
         /\ Falsy(session[t].given))
        => session[t].echoed = session[t].used

\* C26 (every request is answered): whatever JSON value the body is, an
\* array or a non-object included, the handler returns a response and no
\* exception leaves it.
EveryRequestAnswered ==
    \A t \in Tasks :
        (pc[t] = "done" /\ req[t].op = "post_json")
        => result[t].kind \in {"result", "error", "http_error", "batch",
                               "no_content", "empty_object"}

\* C27 (front-end equivalence): the answer a front-end gives to an
\* initialize request, a notification or another method is the answer each of
\* the three front-ends gives to the same request with the same credential.
FrontEndEquivalence ==
    \A t \in Tasks :
        (pc[t] = "done" /\ req[t].op = "method")
        => \A fe \in FrontEnds :
             LET other == MethodResponse(fe, req[t].method, req[t].token)
             IN /\ other.kind = result[t].kind
                /\ other.kind = "error" => other.code = result[t].code

\* The call of flatten_enum task t made has returned.
Flattened(t) == pc[t] = "done" /\ req[t].op = "flatten_enum"

\* C31 (flattening has no side effects on its input): when flatten_enum
\* returns, the schema it was given, with everything that schema holds, is
\* what it was before the call.
FlattenLeavesInput ==
    \A t \in Tasks : Flattened(t) => result[t].schema = req[t].schema

RECURSIVE HasEnum(_)
HasEnum(schema) ==
    /\ IsDict(schema)
    /\ \/ "enum" \in DOMAIN schema
       \/ /\ "properties" \in DOMAIN schema
          /\ \E n \in DOMAIN schema.properties : HasEnum(schema.properties[n])
       \/ /\ "items" \in DOMAIN schema
          /\ HasEnum(schema.items)

RECURSIVE EnumsInDescriptions(_, _)
EnumsInDescriptions(before, after) ==
    IsDict(before) =>
        /\ IsDict(after)
        /\ "enum" \in DOMAIN before =>
              /\ "description" \in DOMAIN after
              /\ \E fe \in {"http", "sse"} :
                   after.description =
                     Get(before, "description", "") \o EnumLabel(fe)
                     \o JoinComma(before.enum)
        /\ "properties" \in DOMAIN before =>
              /\ "properties" \in DOMAIN after
              /\ \A n \in DOMAIN before.properties :
                   /\ n \in DOMAIN after.properties
                   /\ EnumsInDescriptions(before.properties[n], after.properties[n])
        /\ "items" \in DOMAIN before =>
              /\ "items" \in DOMAIN after
              /\ EnumsInDescriptions(before.items, after.items)

\* C33 (flattening removes every enum): the value flatten_enum returns has no
\* enum at any depth, and the values of each enum of the schema are in the
\* description of the node that carried it.
FlattenRemovesEveryEnum ==
    \A t \in Tasks :
        Flattened(t) =>
            /\ ~HasEnum(result[t].value)
            /\ EnumsInDescriptions(req[t].schema, result[t].value)

\* The port a text stands for lies in 1..65535.
PortInRange(text) == IsNumeral(text) /\ 1 <= ParseInt(text) /\ ParseInt(text) <= 65535

\* C34 (configuration validation): Config.validate() always returns a list,
\* empty exactly when the base URL starts with "http", both ports lie in
\* 1..65535 and the log level is one of the five level names; under the
\* default configuration the list is empty and both ports are positive.
ConfigValidation ==
    \A t \in Tasks :
        (pc[t] = "done" /\ req[t].op = "validate") =>
            LET env == req[t].env IN
            /\ result[t].kind = "list"
            /\ result[t].errors = <<>>
                 <=> /\ StartsWithHttp(superior_api_base(env))
                     /\ PortInRange(Getenv(env, "HTTP_SERVER_PORT", "8000"))
                     /\ PortInRange(Getenv(env, "SSE_SERVER_PORT", "8080"))
                     /\ UpperLevel(log_level(env))
                          \in {"DEBUG", "INFO", "WARNING", "ERROR", "CRITICAL"}
            /\ env = DefaultEnv =>
                 /\ result[t].errors = <<>>
                 /\ http_server_port(env) > 0
                 /\ sse_server_port(env) > 0

\* C35 (live sessions stay registered): from the registration of a cursor
\* streaming connection to its end, session_store has an entry for the
\* session id of that connection, also when other connections use the same
\* client-supplied session id.
LiveSessionsRegistered ==
    \A c \in Conns :
        (stream[c].client_type = "cursor" /\ stream[c].pc \in {"checking", "sleeping"})
        => stream[c].session_id \in DOMAIN session_store

\* Task t takes the step in which its fetch_tools returns the empty list
\* after a status other than 200, a body that is not JSON or a network or
\* other error.
FailedFetchReturns(t) ==
    /\ pc[t] = "await_catalog" /\ pc'[t] # "await_catalog"
    /\ loc'[t].source = "failed"
    /\ loc'[t].outcome.kind \in {"status", "nonjson", "neterr"}

UpstreamCarriesCredential ==
    \A t \in Tasks :
        \A i \in DOMAIN sent[t] :
            sent[t][i].kind = "invoke"
            => /\ sent[t][i].headers["token"] = req[t].token
               /\ sent[t][i].headers["Content-Type"] = "application/json"

\* The handler of WebSocket connection c runs, or has returned.
WsLive(c) == stream[c].pc \in {"ws_sending", "ws_receiving"}
WsEnded(c) == stream[c].client_type = "websocket" /\ stream[c].pc = "closed"

\* C38 (WebSocket cleanup): once the handler of a connection has ended, by a
\* disconnect, an error or a failed send that ended the receive loop, the
\* connection is not in the manager's list and its client id is in
\* active_connections only for another live connection; and a live
\* connection keeps its entry when another connection with its client id
\* closes.
WebSocketCleanup ==
    \A c \in Conns :
        /\ WsEnded(c) =>
              /\ ~stream[c].listed
              /\ stream[c].client_id \in DOMAIN active_connections
                   => \E other \in Conns \ {c} :
                        WsLive(other) /\ stream[other].client_id = stream[c].client_id
        /\ WsLive(c) => stream[c].client_id \in DOMAIN active_connections

\* C39 (targeted cache invalidation): a clear-cache request that names a
\* credential removes the entry of that credential and leaves every other
\* entry as it is, whatever its content-type header is; a request that names
\* none removes all entries; and the next fetch_tools for a credential
\* whose entry is gone asks the upstream.
TargetedCacheInvalidation ==
    [][\A t \in Tasks :
          (pc[t] = "idle" /\ req'[t].op = "clear_cache")
          => LET token == req'[t].token IN
             /\ IF Falsy(token) THEN tools_cache' = EmptyDict
                ELSE /\ token \notin DOMAIN tools_cache'
                     /\ \A other \in DOMAIN tools_cache \ {token} :
                          /\ other \in DOMAIN tools_cache'
                          /\ tools_cache'[other] = tools_cache[other]
             /\ \A tok \in IssuedTokens \ DOMAIN tools_cache' :
                  FetchBegin(server, tools_cache', now, tok).kind = "request"]_vars

\* tools_cache.get(tok), and the cache with no entry but the one of tok.
EntryOf(cache, tok) == IF tok \in DOMAIN cache THEN cache[tok] ELSE NoEntry
Only(cache, tok) == [k \in DOMAIN cache \cap {tok} |-> cache[k]]

\* What the step of a task that is at `at` with request rq can come to when
\* the cache is `cache`: one outcome for each answer of the upstream.
StepsFrom(t, at, rq, cache) ==
    CASE at = "idle" -> {Begin(server, cache, now, rq)}
      [] at = "await_catalog" ->
           {AfterFetch(server, rq, FetchFinish(server, cache, now, rq.token, out),
                       out, sent[t]) : out \in CatalogOutcomes(rq.token)}
      [] at = "await_invoke" ->
           {Step("done", [loc[t] EXCEPT !.reply = out], sent[t],
                 CallReply(server, rq.op, InvokeFinish(server, out)), cache)
              : out \in InvokeOutcomes}

\* C40 (cross-credential isolation): a step of a tools/list or tools/call
\* operation performed with credential A leaves the cache entry of every
\* other credential B as it is, and what the step returns, sends and stores
\* is what it would be with no entry but A's in the cache: it reads no entry
\* of B, so an operation with B comes out as if those with A had never run.
CrossCredentialIsolation ==
    [][\A t \in Tasks :
          (pc'[t] # pc[t] /\ pc'[t] # "idle")
          => /\ \A B \in Tokens \ {req'[t].token} :
                  EntryOf(tools_cache', B) = EntryOf(tools_cache, B)
             /\ \E s \in StepsFrom(t, pc[t], req'[t],
                                   Only(tools_cache, req'[t].token)) :
                  /\ s.pc = pc'[t]
                  /\ s.loc = loc'[t]
                  /\ s.sent = sent'[t]
                  /\ s.result = result'[t]
                  /\ s.cache = Only(tools_cache', req'[t].token)]_vars

\* A fetch with tok_valid_A has stored its list while tok_valid_B has an
\* entry, and a call with tok_valid_B is answered from that entry.
IsolatedCredentialsAtWork ==
    /\ pc[1] = "done" /\ req[1].op = "fetch_tools" /\ loc[1].source = "fetch"
    /\ "tok_valid_A" \in DOMAIN tools_cache
    /\ "tok_valid_B" \in DOMAIN tools_cache
    /\ tools_cache["tok_valid_A"].tools # tools_cache["tok_valid_B"].tools
    /\ pc[2] = "await_invoke" /\ req[2].op = "call_tool"

=============================================================================
